---- MODULE Spec2Model ----
(***************************************************************************)
(* A model of slender-math: the build-time swizzle accessor generator      *)
(* (build.rs) and the lane-packed vector, quaternion and matrix kernels    *)
(* (src/lib.rs).  Floating point lanes are modelled in exact arithmetic as *)
(* extended rationals <<n, d>> (d = 0 encodes +inf, -inf and NaN); the     *)
(* sign of zero is not modelled.                                           *)
(***************************************************************************)
EXTENDS Integers, Sequences, FiniteSets, TLC

VARIABLES
    swC,        \* write_swizzles: COMPONENT_COUNT of the running instantiation
    swM,        \* write_swizzles: OUTPUT_COUNT of the running instantiation
    perm,       \* write_swizzles: the selection `perm`
    swI,        \* write_swizzles: the loop counter `i`
    swOut,      \* the accessors written to the stream so far, in order
    vty,        \* the vector type of the value held in `vec`
    vec,        \* a vector value: the physical lanes of its SIMD register
    vop,        \* the operation that has just returned: its name, index and whether it aborted
    vprev,      \* the value the operation was applied to
    vrhs,       \* the right-hand operand of the operation, as physical lanes
    mty,        \* the matrix type of the value held in `mat`
    mat,        \* a matrix value: its columns, each a SIMD register
    mop,        \* the matrix method that has just returned, "none" between calls
    marg,       \* the right-hand operand of that method
    mres,       \* the value that method returned
    medited     \* whether the caller has changed `mat` since it was constructed

swzVars == <<swC, swM, perm, swI, swOut>>

vecVars == <<vty, vec, vop, vprev, vrhs>>

matVars == <<mty, mat, mop, marg, mres, medited>>

vars == <<swC, swM, perm, swI, swOut, vty, vec, vop, vprev, vrhs,
          mty, mat, mop, marg, mres, medited>>

-----------------------------------------------------------------------------
(* f32 in exact arithmetic: extended rationals <<n, d>> in lowest terms,   *)
(* d > 0 for finite values; <<1, 0>> is +inf, <<-1, 0>> is -inf and        *)
(* <<0, 0>> is NaN.                                                        *)

Abs(x) == IF x < 0 THEN -x ELSE x

Sgn(x) == IF x < 0 THEN -1 ELSE IF x > 0 THEN 1 ELSE 0

RECURSIVE GCD(_, _)
GCD(a, b) == IF b = 0 THEN a ELSE GCD(b, a % b)

RNorm(n, d) ==
    IF d = 0 THEN <<Sgn(n), 0>>
    ELSE LET g == GCD(Abs(n), Abs(d))
             s == IF d < 0 THEN -1 ELSE 1
         IN  <<(s * n) \div g, (s * d) \div g>>

R(n) == <<n, 1>>

Frac(n, d) == RNorm(n, d)

NaN == <<0, 0>>

PInf == <<1, 0>>

NInf == <<-1, 0>>

IsNaN(a) == a[2] = 0 /\ a[1] = 0

IsFinite(a) == a[2] # 0

RNeg(a) == <<-a[1], a[2]>>

RAdd(a, b) ==
    IF a[2] = 0 /\ b[2] = 0 THEN (IF a[1] = b[1] THEN a ELSE NaN)
    ELSE IF a[2] = 0 THEN a
    ELSE IF b[2] = 0 THEN b
    ELSE LET g == GCD(a[2], b[2])
             l == (a[2] \div g) * b[2]
         IN  RNorm(a[1] * (l \div a[2]) + b[1] * (l \div b[2]), l)

RSub(a, b) == RAdd(a, RNeg(b))

RMul(a, b) ==
    IF a[2] = 0 \/ b[2] = 0 THEN <<Sgn(a[1]) * Sgn(b[1]), 0>>
    ELSE LET g1 == GCD(Abs(a[1]), b[2])
             g2 == GCD(Abs(b[1]), a[2])
         IN  RNorm((a[1] \div g1) * (b[1] \div g2), (a[2] \div g2) * (b[2] \div g1))

\* 1.0 / a; the zero of the model is +0, so 1/0 is +inf.
RInv(a) ==
    IF a[1] = 0 THEN (IF a[2] = 0 THEN NaN ELSE PInf)
    ELSE IF a[2] = 0 THEN R(0)
    ELSE IF a[1] < 0 THEN <<-a[2], -a[1]>>
    ELSE <<a[2], a[1]>>

RDiv(a, b) == RMul(a, RInv(b))

RECURSIVE FracLt(_, _, _, _)
\* n1/d1 < n2/d2 for d1, d2 > 0, by comparing the integer parts and then the
\* reciprocals of the fractional parts (no product is formed).
FracLt(n1, d1, n2, d2) ==
    IF n1 \div d1 # n2 \div d2 THEN n1 \div d1 < n2 \div d2
    ELSE IF n2 % d2 = 0 THEN FALSE
    ELSE IF n1 % d1 = 0 THEN TRUE
    ELSE FracLt(d2, n2 % d2, d1, n1 % d1)

\* a < b; every comparison with NaN is false.
RLt(a, b) ==
    /\ ~IsNaN(a)
    /\ ~IsNaN(b)
    /\ IF a[2] = 0 /\ b[2] = 0 THEN a[1] < b[1]
       ELSE IF a[2] = 0 THEN a[1] < 0
       ELSE IF b[2] = 0 THEN b[1] > 0
       ELSE FracLt(a[1], a[2], b[1], b[2])

\* a == b on f32: NaN equals nothing.
REq(a, b) == ~IsNaN(a) /\ ~IsNaN(b) /\ a = b

RAbs(a) == <<Abs(a[1]), a[2]>>

RFloor(a) == IF a[2] = 0 THEN a ELSE <<a[1] \div a[2], 1>>

RCeil(a) == RNeg(RFloor(RNeg(a)))

RTrunc(a) == IF a[1] < 0 THEN RCeil(a) ELSE RFloor(a)

\* f32::fract: self - self.trunc()
RFract(a) == RSub(a, RTrunc(a))

\* simd_min / simd_max: a NaN operand yields the other operand.
RMin(a, b) == IF IsNaN(a) THEN b ELSE IF IsNaN(b) THEN a ELSE IF RLt(b, a) THEN b ELSE a

RMax(a, b) == IF IsNaN(a) THEN b ELSE IF IsNaN(b) THEN a ELSE IF RLt(a, b) THEN b ELSE a

\* The f32 remainder, of the sign of the dividend.
RRem(a, b) ==
    IF a[2] = 0 \/ IsNaN(b) \/ b = R(0) THEN NaN
    ELSE IF b[2] = 0 THEN a
    ELSE RSub(a, RMul(RTrunc(RDiv(a, b)), b))

IsSquare(n) == n >= 0 /\ \E r \in 0..n : r * r = n

ISqrt(n) == CHOOSE r \in 0..n : r * r = n

\* Whether f32::sqrt of a is a rational (or inf, or NaN).
HasExactSqrt(a) == a[2] = 0 \/ a[1] < 0 \/ (IsSquare(a[1]) /\ IsSquare(a[2]))

RSqrt(a) ==
    IF a[2] = 0 THEN (IF a[1] > 0 THEN PInf ELSE NaN)
    ELSE IF a[1] < 0 THEN NaN
    ELSE <<ISqrt(a[1]), ISqrt(a[2])>>

\* f32::EPSILON
F32_EPSILON == Frac(1, 8388608)

-----------------------------------------------------------------------------
(* i32 lanes: two's complement, 32 bits wide                                *)

I32_MAX == 2147483647

I32_MIN == -I32_MAX - 1

\* The sum clamped to the i32 range instead of wrapped.
I32Add_saturating(a, b) ==
    IF b > 0 /\ a > I32_MAX - b THEN I32_MAX
    ELSE IF b < 0 /\ a < I32_MIN - b THEN I32_MIN
    ELSE a + b

\* a + b reduced modulo 2^32 into the i32 range.
I32Add(a, b) ==
    IF b > 0 /\ a > I32_MAX - b THEN (a - I32_MAX - 1) + (b - I32_MAX - 1)
    ELSE IF b < 0 /\ a < I32_MIN - b THEN (a + I32_MAX + 1) + (b + I32_MAX + 1)
    ELSE a + b

I32Neg(a) == IF a = I32_MIN THEN I32_MIN ELSE -a

I32Sub(a, b) == IF b = I32_MIN THEN I32Add(I32Add(a, I32_MAX), 1) ELSE I32Add(a, -b)

\* x * y modulo 2^16, for 16-bit limbs x and y.
MulLo16(x, y) == (x * (y % 256) + ((x * (y \div 256)) % 256) * 256) % 65536

\* floor(x * y / 2^16), for 16-bit limbs x and y.
MulHi16(x, y) ==
    LET u == x * (y % 256)
        v == x * (y \div 256)
    IN  (v \div 256) + ((u + (v % 256) * 256) \div 65536)

\* a * b reduced modulo 2^32 into the i32 range, by 16-bit limbs.
I32Mul(a, b) ==
    LET al == a % 65536
        ah == (a \div 65536) % 65536
        bl == b % 65536
        bh == (b \div 65536) % 65536
        lo == MulLo16(al, bl)
        hi == (MulHi16(al, bl) + MulLo16(ah, bl) + MulLo16(al, bh)) % 65536
    IN  IF hi >= 32768 THEN (hi - 65536) * 65536 + lo ELSE hi * 65536 + lo

I32Abs(a) == IF a < 0 THEN I32Neg(a) ELSE a

\* i32 division truncates toward zero (b # 0, not MIN / -1).
I32Div(a, b) == Sgn(a) * Sgn(b) * (Abs(a) \div Abs(b))

I32Rem(a, b) == a - b * I32Div(a, b)

-----------------------------------------------------------------------------
(* build.rs: the swizzle accessor generator                                *)

\* The instantiations main() makes of write_swizzles::<C, M>.
ComponentCounts == {2, 3, 4}
OutputCounts == {2, 3, 4}

FIELD_NAMES == <<"x", "y", "z", "w">>

RECURSIVE next_perm_from(_, _, _)
\* The loop of next_perm over perm.iter_mut().rev(), at 1-based position k.
next_perm_from(p, k, max) ==
    IF k = 0 THEN p
    ELSE LET f == p[k] + 1
         IN  IF f >= max
             THEN next_perm_from([p EXCEPT ![k] = 0], k - 1, max)
             ELSE [p EXCEPT ![k] = f]

\* A next_perm that overflows the last digit without carrying.
next_perm_nocarry(p, max) ==
    LET k == Len(p)
        f == p[k] + 1
    IN  [p EXCEPT ![k] = IF f >= max THEN 0 ELSE f]

RECURSIVE next_perm_fwd_from(_, _, _)
next_perm_fwd_from(p, k, max) ==
    IF k > Len(p) THEN p
    ELSE LET f == p[k] + 1
         IN  IF f >= max
             THEN next_perm_fwd_from([p EXCEPT ![k] = 0], k + 1, max)
             ELSE [p EXCEPT ![k] = f]

\* A next_perm that iterates without .rev(): the first position counts fastest.
next_perm_fwd(p, max) == next_perm_fwd_from(p, 1, max)

next_perm(p, max) == next_perm_from(p, Len(p), max)

RECURSIVE next_power_of_two_from(_, _)
next_power_of_two_from(n, p) ==
    IF p >= n THEN p ELSE next_power_of_two_from(n, 2 * p)

\* usize::next_power_of_two
next_power_of_two(n) == next_power_of_two_from(n, 1)

\* The lane list with the selection written last position first.
write_field_list_rev(p) ==
    [k \in 1..Len(p) |-> p[Len(p) + 1 - k]]
        \o [k \in 1..(next_power_of_two(Len(p)) - Len(p)) |-> 0]

\* The lane indices write_field_list writes: perm, then ", 0" up to the next
\* power of two.
write_field_list(p) ==
    p \o [k \in 1..(next_power_of_two(Len(p)) - Len(p)) |-> 0]

\* The accessor name: perm.map(|f| FIELD_NAMES[f]), letter by letter.
AccessorName(p) == [k \in 1..Len(p) |-> FIELD_NAMES[p[k] + 1]]

-----------------------------------------------------------------------------
(* src/lib.rs: the lane-packed vector types                                *)

VecTypes == {"Vector2f", "Vector3f", "Vector4f", "Vector2i", "Vector3i", "Vector4i"}

FloatTypes == {"Vector2f", "Vector3f", "Vector4f"}

PaddedTypes == {"Vector3f", "Vector3i"}

IsFloat(ty) == ty \in FloatTypes

\* The component count N of the type.
Dim(ty) == IF ty \in {"Vector2f", "Vector2i"} THEN 2
           ELSE IF ty \in PaddedTypes THEN 3 ELSE 4

\* The lane count of the SIMD register the struct wraps (f32x2, f32x4, i32x2, i32x4).
Lanes(ty) == IF ty \in {"Vector2f", "Vector2i"} THEN 2 ELSE 4

ZeroOf(ty) == IF IsFloat(ty) THEN R(0) ELSE 0

\* A scalar literal of the type's element type.
Scalar(ty, n) == IF IsFloat(ty) THEN R(n) ELSE n

\* Self::new / from_array: the components, and the type's zero in a padding lane.
Vec_new(ty, c) == [k \in 1..Lanes(ty) |-> IF k <= Dim(ty) THEN c[k] ELSE ZeroOf(ty)]

Vec_from_scalar(ty, s) == [k \in 1..Lanes(ty) |-> IF k <= Dim(ty) THEN s ELSE ZeroOf(ty)]

\* Simd::splat
splat(ty, s) == [k \in 1..Lanes(ty) |-> s]

\* A from_simd_truncate that masks nothing, as the 2- and 4-wide types have it.
from_simd_keep(ty, simd) == simd

\* from_simd_truncate: mask [true, true, true, false] on the padded types,
\* the identity on the others.
from_simd_truncate(ty, simd) ==
    IF ty \in PaddedTypes THEN [simd EXCEPT ![4] = ZeroOf(ty)] ELSE simd

SAdd(ty, a, b) == IF IsFloat(ty) THEN RAdd(a, b) ELSE I32Add(a, b)

SSub(ty, a, b) == IF IsFloat(ty) THEN RSub(a, b) ELSE I32Sub(a, b)

SMul(ty, a, b) == IF IsFloat(ty) THEN RMul(a, b) ELSE I32Mul(a, b)

SDiv(ty, a, b) == IF IsFloat(ty) THEN RDiv(a, b) ELSE I32Div(a, b)

SRem(ty, a, b) == IF IsFloat(ty) THEN RRem(a, b) ELSE I32Rem(a, b)

SNeg(ty, a) == IF IsFloat(ty) THEN RNeg(a) ELSE I32Neg(a)

SAbs(ty, a) == IF IsFloat(ty) THEN RAbs(a) ELSE I32Abs(a)

SMin(ty, a, b) == IF IsFloat(ty) THEN RMin(a, b) ELSE (IF b < a THEN b ELSE a)

SMax(ty, a, b) == IF IsFloat(ty) THEN RMax(a, b) ELSE (IF a < b THEN b ELSE a)

\* The operators of impl_operators!, on the physical lanes.
Vec_add(ty, a, b) == [k \in 1..Lanes(ty) |-> SAdd(ty, a[k], b[k])]

Vec_sub(ty, a, b) == [k \in 1..Lanes(ty) |-> SSub(ty, a[k], b[k])]

Vec_neg(ty, a) == [k \in 1..Lanes(ty) |-> SNeg(ty, a[k])]

Vec_mul(ty, a, b) == [k \in 1..Lanes(ty) |-> SMul(ty, a[k], b[k])]

\* Simd<i32, _> division and remainder panic when any lane of the divisor is
\* zero; f32 lanes never panic.
simd_div_panics(ty, b) == ~IsFloat(ty) /\ \E k \in 1..Lanes(ty) : b[k] = 0

Vec_div(ty, a, b) ==
    from_simd_truncate(ty, [k \in 1..Lanes(ty) |-> SDiv(ty, a[k], b[k])])

Vec_rem(ty, a, b) ==
    from_simd_truncate(ty, [k \in 1..Lanes(ty) |-> SRem(ty, a[k], b[k])])

Vec_add_scalar(ty, a, s) == from_simd_truncate(ty, Vec_add(ty, a, splat(ty, s)))

Vec_sub_scalar(ty, a, s) == from_simd_truncate(ty, Vec_sub(ty, a, splat(ty, s)))

Vec_mul_scalar(ty, a, s) == from_simd_truncate(ty, Vec_mul(ty, a, splat(ty, s)))

Vec_div_scalar(ty, a, s) ==
    from_simd_truncate(ty, [k \in 1..Lanes(ty) |-> SDiv(ty, a[k], s)])

Vec_rem_scalar(ty, a, s) ==
    from_simd_truncate(ty, [k \in 1..Lanes(ty) |-> SRem(ty, a[k], s)])

\* Index<usize> / IndexMut<usize>: self.0.index(index) indexes the SIMD
\* register, whose bounds check is against its lane count.
index_panics(ty, i) == i >= Lanes(ty)

Vec_index(a, i) == a[i + 1]

Vec_index_mut(a, i, s) == [a EXCEPT ![i + 1] = s]

\* impl_common_f! and impl_common_i!
Vec_abs(ty, a) == [k \in 1..Lanes(ty) |-> SAbs(ty, a[k])]

Vec_recip(ty, a) == from_simd_truncate(ty, [k \in 1..Lanes(ty) |-> RInv(a[k])])

Vec_floor(ty, a) == [k \in 1..Lanes(ty) |-> RFloor(a[k])]

Vec_ceil(ty, a) == [k \in 1..Lanes(ty) |-> RCeil(a[k])]

Vec_fract(ty, a) == [k \in 1..Lanes(ty) |-> RFract(a[k])]

RECURSIVE reduce_sum_to(_, _, _)
reduce_sum_to(ty, a, k) ==
    IF k = 0 THEN ZeroOf(ty) ELSE SAdd(ty, reduce_sum_to(ty, a, k - 1), a[k])

\* Simd::reduce_sum, over every physical lane.
reduce_sum(ty, a) == reduce_sum_to(ty, a, Lanes(ty))

Vec_dot(ty, a, b) == reduce_sum(ty, Vec_mul(ty, a, b))

Vec_len2(ty, a) == Vec_dot(ty, a, a)

Vec_len(ty, a) == RSqrt(Vec_len2(ty, a))

\* Normalisation that always divides.
Vec_normalized_unchecked(ty, a) == Vec_div_scalar(ty, a, Vec_len(ty, a))

Vec_normalized(ty, a) ==
    LET len == Vec_len(ty, a)
    IN  IF REq(len, R(0)) THEN a ELSE Vec_div_scalar(ty, a, Vec_len(ty, a))

Vec_lerp(ty, a, b, t) == Vec_add(ty, a, Vec_mul_scalar(ty, Vec_sub(ty, b, a), t))

Vec_min(ty, a, b) == [k \in 1..Lanes(ty) |-> SMin(ty, a[k], b[k])]

Vec_max(ty, a, b) == [k \in 1..Lanes(ty) |-> SMax(ty, a[k], b[k])]

Vec_mul_add(ty, s, a, b) == [k \in 1..Lanes(ty) |-> RAdd(RMul(s[k], a[k]), b[k])]

\* simd_swizzle!(v, [i0, i1, ...]) with 0-based lane indices.
simd_swizzle(v, idx) == [k \in 1..Len(idx) |-> v[idx[k] + 1]]

\* The cross product with its operands exchanged.
Vector3f_cross_swapped(a, b) ==
    LET ty   == "Vector3f"
        tmp0 == simd_swizzle(b, <<1, 2, 0, 3>>)
        tmp1 == simd_swizzle(a, <<2, 0, 1, 3>>)
        tmp2 == Vec_mul(ty, tmp0, a)
        tmp3 == Vec_mul(ty, tmp0, tmp1)
        tmp4 == simd_swizzle(tmp2, <<1, 2, 0, 3>>)
    IN  Vec_sub(ty, tmp3, tmp4)

\* Vector3f::cross
Vector3f_cross(a, b) ==
    LET ty   == "Vector3f"
        tmp0 == simd_swizzle(a, <<1, 2, 0, 3>>)
        tmp1 == simd_swizzle(b, <<2, 0, 1, 3>>)
        tmp2 == Vec_mul(ty, tmp0, b)
        tmp3 == Vec_mul(ty, tmp0, tmp1)
        tmp4 == simd_swizzle(tmp2, <<1, 2, 0, 3>>)
    IN  Vec_sub(ty, tmp3, tmp4)

\* Vector2i::to_float, Vector3i::to_float, Vector4i::to_float: self.0.cast()
FloatTypeOf(ty) == IF ty = "Vector2i" THEN "Vector2f"
                   ELSE IF ty = "Vector3i" THEN "Vector3f" ELSE "Vector4f"

Vec_to_float(a) == [k \in 1..Len(a) |-> R(a[k])]

\* Equality over all four physical lanes.
Vec3_eq_all_lanes(ty, a, b) ==
    \A k \in 1..4 : IF IsFloat(ty) THEN REq(a[k], b[k]) ELSE a[k] = b[k]

\* impl PartialEq for Vector3f / Vector3i: as_array()[0], [1] and [2]
Vec3_eq(ty, a, b) ==
    /\ (IF IsFloat(ty) THEN REq(a[1], b[1]) ELSE a[1] = b[1])
    /\ (IF IsFloat(ty) THEN REq(a[2], b[2]) ELSE a[2] = b[2])
    /\ (IF IsFloat(ty) THEN REq(a[3], b[3]) ELSE a[3] = b[3])

\* impl Hash for Vector3i: the i32 values handed to the hasher, in order.
Vector3i_hash(a) == <<a[1], a[2], a[3]>>

-----------------------------------------------------------------------------
(* src/lib.rs: f32x2 / f32x4 registers as the matrix and quaternion code   *)
(* uses them                                                               *)

f_add(a, b) == [k \in 1..Len(a) |-> RAdd(a[k], b[k])]

f_sub(a, b) == [k \in 1..Len(a) |-> RSub(a[k], b[k])]

f_mul(a, b) == [k \in 1..Len(a) |-> RMul(a[k], b[k])]

f_div(a, b) == [k \in 1..Len(a) |-> RDiv(a[k], b[k])]

f_splat(n, x) == [k \in 1..n |-> x]

RECURSIVE f_reduce_sum_to(_, _)
f_reduce_sum_to(a, k) == IF k = 0 THEN R(0) ELSE RAdd(f_reduce_sum_to(a, k - 1), a[k])

f_reduce_sum(a) == f_reduce_sum_to(a, Len(a))

\* simd_swizzle!(a, b, [First(i) | Second(i), ...]): idx holds <<0, i>> for
\* First(i) and <<1, i>> for Second(i).
simd_swizzle2(a, b, idx) ==
    [k \in 1..Len(idx) |-> IF idx[k][1] = 0 THEN a[idx[k][2] + 1] ELSE b[idx[k][2] + 1]]

simd_swizzle_1(v, x) == simd_swizzle(v, <<x, x, x, x>>)

simd_swizzle_0101(a, b) == simd_swizzle2(a, b, <<<<0, 0>>, <<0, 1>>, <<1, 0>>, <<1, 1>>>>)

simd_swizzle_2323(a, b) == simd_swizzle2(a, b, <<<<0, 2>>, <<0, 3>>, <<1, 2>>, <<1, 3>>>>)

\* A generated swizzle accessor of result type ty for the selection sel:
\* ty::from_simd_truncate(simd_swizzle!(self.0, [write_field_list(sel)])).
swizzle(ty, v, sel) == from_simd_truncate(ty, simd_swizzle(v, write_field_list(sel)))

\* f32xN::abs
f_abs(a) == [k \in 1..Len(a) |-> RAbs(a[k])]

\* a.simd_lt(b).all()
f_all_lt(a, b) == \A k \in 1..Len(a) : RLt(a[k], b[k])

\* Matrix2x3::is_identity and Matrix4x4::is_identity: every column compared
\* with the identity's column I0, I1, ...
Mat_is_identity(m, identity, epsilon) ==
    LET eps == f_splat(Len(m[1]), epsilon)
    IN  \A j \in 1..Len(m) : f_all_lt(f_abs(f_sub(m[j], identity[j])), eps)

-----------------------------------------------------------------------------
(* src/lib.rs: Quaternion                                                  *)

Quat_IDENTITY == <<R(0), R(0), R(0), R(1)>>

Quat_xyz(q) == swizzle("Vector3f", q, <<0, 1, 2>>)

Quat_w(q) == q[4]

\* The rotation by the opposite angle: the two cross products with the
\* quaternion's vector part on the right.
Quat_mul_vec3_reversed(q, v) ==
    LET ty == "Vector3f"
    IN  Vec_add(ty, v,
            Vec_mul_scalar(ty,
                Vector3f_cross(Vec_add(ty, Vector3f_cross(v, Quat_xyz(q)),
                                           Vec_mul_scalar(ty, v, Quat_w(q))),
                               Quat_xyz(q)),
                R(2)))

\* impl Mul<Vector3f> for Quaternion
Quat_mul_vec3(q, v) ==
    LET ty == "Vector3f"
    IN  Vec_add(ty, v,
            Vec_mul_scalar(ty,
                Vector3f_cross(Quat_xyz(q),
                    Vec_add(ty, Vector3f_cross(Quat_xyz(q), v),
                                Vec_mul_scalar(ty, v, Quat_w(q)))),
                R(2)))

\* Quaternion::new
Quat_new(x, y, z, w) == <<x, y, z, w>>

\* The generated accessor xyzw of Quaternion.
Quat_xyzw(q) == swizzle("Vector4f", q, <<0, 1, 2, 3>>)

\* impl Add for Quaternion
Quat_add(a, b) == f_add(a, b)

\* impl Sub for Quaternion
Quat_sub(a, b) == f_sub(a, b)

\* impl Neg for Quaternion
Quat_neg(a) == [k \in 1..4 |-> RNeg(a[k])]

\* impl Mul<f32> for Quaternion
Quat_mul_scalar(a, s) == f_mul(a, f_splat(4, s))

\* The product with the operands exchanged.
Quat_mul_commuted(p, q) ==
    LET ty  == "Vector3f"
        xyz == Vec_add(ty,
                   Vec_add(ty, Vec_mul_scalar(ty, Quat_xyz(p), Quat_w(q)),
                               Vec_mul_scalar(ty, Quat_xyz(q), Quat_w(p))),
                   Vector3f_cross(Quat_xyz(q), Quat_xyz(p)))
        w   == RSub(RMul(Quat_w(q), Quat_w(p)), Vec_dot(ty, Quat_xyz(q), Quat_xyz(p)))
    IN  Quat_new(xyz[1], xyz[2], xyz[3], w)

\* impl Mul for Quaternion: self = p, rhs = q
Quat_mul(p, q) ==
    LET ty  == "Vector3f"
        xyz == Vec_add(ty,
                   Vec_add(ty, Vec_mul_scalar(ty, Quat_xyz(q), Quat_w(p)),
                               Vec_mul_scalar(ty, Quat_xyz(p), Quat_w(q))),
                   Vector3f_cross(Quat_xyz(p), Quat_xyz(q)))
        w   == RSub(RMul(Quat_w(p), Quat_w(q)), Vec_dot(ty, Quat_xyz(p), Quat_xyz(q)))
    IN  Quat_new(xyz[1], xyz[2], xyz[3], w)

\* An angle argument.  The trigonometric functions are not computed: an
\* angle is given by its sign and by the exact sine and cosine of its half,
\* and only angles whose half has a rational sine and cosine are used.
Angle(sign, sinHalf, cosHalf) == [sign |-> sign, half |-> <<sinHalf, cosHalf>>]

\* (angle * 0.5).sin_cos()
half_sin_cos(angle) == angle.half

\* Quaternion::from_angle_x
Quat_from_angle_x(angle) ==
    LET sc == half_sin_cos(angle) IN Quat_new(sc[1], R(0), R(0), sc[2])

\* Quaternion::from_angle_y
Quat_from_angle_y(angle) ==
    LET sc == half_sin_cos(angle) IN Quat_new(R(0), sc[1], R(0), sc[2])

\* Quaternion::from_angle_z
Quat_from_angle_z(angle) ==
    LET sc == half_sin_cos(angle) IN Quat_new(R(0), R(0), sc[1], sc[2])

\* The composition in the order x, y, z.
Quat_from_yaw_pitch_roll_xyz(yaw, pitch, roll) ==
    Quat_mul(Quat_mul(Quat_from_angle_x(pitch), Quat_from_angle_y(yaw)),
             Quat_from_angle_z(roll))

\* Quaternion::from_yaw_pitch_roll: y * x * z
Quat_from_yaw_pitch_roll(yaw, pitch, roll) ==
    LET y == Quat_from_angle_y(yaw)
        x == Quat_from_angle_x(pitch)
        z == Quat_from_angle_z(roll)
    IN  Quat_mul(Quat_mul(y, x), z)

\* Quaternion::normalized
Quat_normalized(q) ==
    LET len == Vec_len("Vector4f", Quat_xyzw(q))
    IN  IF REq(len, R(0)) THEN q ELSE Quat_mul_scalar(q, RDiv(R(1), len))

\* Quaternion::conjugate
Quat_conjugate(q) == Quat_new(RNeg(q[1]), RNeg(q[2]), RNeg(q[3]), Quat_w(q))

\* Quaternion::lerp before `.normalized()`: the value of the if expression.
Quat_lerp_blend(a, b, t) ==
    IF RLt(Vec_dot("Vector4f", Quat_xyzw(a), Quat_xyzw(b)), R(0))
    THEN Quat_sub(a, Quat_mul_scalar(Quat_add(b, a), t))
    ELSE Quat_add(a, Quat_mul_scalar(Quat_sub(b, a), t))

\* The interpolation that normalises the else branch only.
Quat_lerp_else_normalized(a, b, t) ==
    IF RLt(Vec_dot("Vector4f", Quat_xyzw(a), Quat_xyzw(b)), R(0))
    THEN Quat_lerp_blend(a, b, t)
    ELSE Quat_normalized(Quat_lerp_blend(a, b, t))

\* Quaternion::lerp
Quat_lerp(a, b, t) == Quat_normalized(Quat_lerp_blend(a, b, t))

\* omega.sin() for omega = cosom.acos(), 0 <= omega <= pi.
sin_acos(cosom) == RSqrt(RSub(R(1), RMul(cosom, cosom)))

\* (s * omega).sin() for omega = cosom.acos() and the factors s that are
\* used: 0, 1/2 and 1.
sin_scaled_acos(s, cosom) ==
    CASE s = R(0)       -> R(0)
      [] s = Frac(1, 2) -> RSqrt(RDiv(RSub(R(1), cosom), R(2)))
      [] s = R(1)       -> sin_acos(cosom)

\* Quaternion::slerp after the choice of `temp` and `cosom`: the sum that is
\* then normalised.
Quat_slerp_blend(a, temp, cosom, t) ==
    LET trig   == RLt(F32_EPSILON, RSub(R(1), cosom))
        sinom  == RDiv(R(1), sin_acos(cosom))
        scale1 == IF trig THEN RMul(sin_scaled_acos(RSub(R(1), t), cosom), sinom)
                  ELSE RSub(R(1), t)
        scale2 == IF trig THEN RMul(sin_scaled_acos(t, cosom), sinom)
                  ELSE t
    IN  Quat_add(Quat_mul_scalar(a, scale1), Quat_mul_scalar(temp, scale2))

\* The interpolation that never negates `rhs`.
Quat_slerp_long(a, b, t) ==
    Quat_normalized(
        Quat_slerp_blend(a, b, Vec_dot("Vector4f", Quat_xyzw(a), Quat_xyzw(b)), t))

\* Quaternion::slerp
Quat_slerp(a, b, t) ==
    LET dot   == Vec_dot("Vector4f", Quat_xyzw(a), Quat_xyzw(b))
        neg   == RLt(dot, R(0))
        temp  == IF neg THEN Quat_neg(b) ELSE b
        cosom == IF neg THEN RNeg(dot) ELSE dot
    IN  Quat_normalized(Quat_slerp_blend(a, temp, cosom, t))

\* Whether the square roots taken when interpolating from a towards temp
\* are rational, so that the exact arithmetic can follow them.
Quat_slerp_exact_towards(a, temp, cosom, t) ==
    /\ RLt(F32_EPSILON, RSub(R(1), cosom)) =>
           /\ HasExactSqrt(RSub(R(1), RMul(cosom, cosom)))
           /\ t = Frac(1, 2) => HasExactSqrt(RDiv(RSub(R(1), cosom), R(2)))
    /\ HasExactSqrt(Vec_len2("Vector4f", Quat_xyzw(Quat_slerp_blend(a, temp, cosom, t))))

\* The same for both signs of rhs.
Quat_slerp_exact(a, b, t) ==
    LET dot == Vec_dot("Vector4f", Quat_xyzw(a), Quat_xyzw(b))
    IN  /\ Quat_slerp_exact_towards(a, b, dot, t)
        /\ Quat_slerp_exact_towards(a, Quat_neg(b), RNeg(dot), t)

-----------------------------------------------------------------------------
(* src/lib.rs: Matrix2x3, three f32x2 columns                              *)

Mat23_IDENTITY == << <<R(1), R(0)>>, <<R(0), R(1)>>, <<R(0), R(0)>> >>

Mat23_new(e00, e10, e01, e11, e02, e12) == << <<e00, e10>>, <<e01, e11>>, <<e02, e12>> >>

\* Index<(usize, usize)>: self.0[index.1][index.0], indexed (row, column).
Mat23_at(m, r, c) == m[c + 1][r + 1]

\* IndexMut<(usize, usize)>
Mat23_set(m, r, c, x) == [m EXCEPT ![c + 1][r + 1] = x]

Mat23_translation(t) == Mat23_set(Mat23_set(Mat23_IDENTITY, 0, 2, t[1]), 1, 2, t[2])

Mat23_scaling(sc) == Mat23_set(Mat23_set(Mat23_IDENTITY, 0, 0, sc[1]), 1, 1, sc[2])

\* Matrix2x3::rotation(angle); sincos is <<sin, cos>> of the angle.
Mat23_rotation(sincos) ==
    LET sin == sincos[1]
        cos == sincos[2]
    IN  Mat23_set(Mat23_set(Mat23_set(Mat23_set(Mat23_IDENTITY,
            0, 0, cos), 0, 1, RNeg(sin)), 1, 0, sin), 1, 1, cos)

\* impl Mul for Matrix2x3
Mat23_mul(lhs, rhs) ==
    LET c0 == f_add(f_mul(lhs[1], f_splat(2, Mat23_at(rhs, 0, 0))),
                    f_mul(lhs[2], f_splat(2, Mat23_at(rhs, 1, 0))))
        c1 == f_add(f_mul(lhs[1], f_splat(2, Mat23_at(rhs, 0, 1))),
                    f_mul(lhs[2], f_splat(2, Mat23_at(rhs, 1, 1))))
        c2 == f_add(f_add(f_mul(lhs[1], f_splat(2, Mat23_at(rhs, 0, 2))),
                          f_mul(lhs[2], f_splat(2, Mat23_at(rhs, 1, 2)))),
                    lhs[3])
    IN  <<c0, c1, c2>>

Mat23_from_scale_rotation_translation(sc, sincos, t) ==
    Mat23_mul(Mat23_mul(Mat23_translation(t), Mat23_rotation(sincos)), Mat23_scaling(sc))

\* Vector2f::cross
Vector2f_cross(a, b) ==
    LET prod == Vec_mul("Vector2f", a, swizzle("Vector2f", b, <<1, 0>>))
    IN  RSub(prod[1], prod[2])

\* Matrix2x3::determinant
Mat23_determinant(m) == Vector2f_cross(m[1], m[2])

\* The inverse with the off-diagonal elements of the adjugate in place:
\* e10' = -e10 / det and e01' = -e01 / det.
Mat23_inverse_adjugate(m) ==
    LET inv_det == RDiv(R(1), Mat23_determinant(m))
        _e00 == Mat23_at(m, 0, 0)
        _e10 == Mat23_at(m, 1, 0)
        _e01 == Mat23_at(m, 0, 1)
        _e11 == Mat23_at(m, 1, 1)
        _e02 == Mat23_at(m, 0, 2)
        _e12 == Mat23_at(m, 1, 2)
    IN  Mat23_new(RMul(_e11, inv_det), RMul(RNeg(_e10), inv_det),
                  RMul(RNeg(_e01), inv_det), RMul(_e00, inv_det),
                  RMul(RSub(RMul(_e01, _e12), RMul(_e02, _e11)), inv_det),
                  RMul(RSub(RMul(_e02, _e10), RMul(_e00, _e12)), inv_det))

\* Matrix2x3::inverse
Mat23_inverse(m) ==
    LET det     == Mat23_determinant(m)
        inv_det == RDiv(R(1), det)
        _e00 == Mat23_at(m, 0, 0)
        _e10 == Mat23_at(m, 1, 0)
        _e01 == Mat23_at(m, 0, 1)
        _e11 == Mat23_at(m, 1, 1)
        _e02 == Mat23_at(m, 0, 2)
        _e12 == Mat23_at(m, 1, 2)
        e00 == RMul(_e11, inv_det)
        e10 == RMul(RNeg(_e01), inv_det)
        e01 == RMul(RNeg(_e10), inv_det)
        e11 == RMul(_e00, inv_det)
        e02 == RMul(RSub(RMul(_e01, _e12), RMul(_e02, _e11)), inv_det)
        e12 == RMul(RSub(RMul(_e02, _e10), RMul(_e00, _e12)), inv_det)
    IN  Mat23_new(e00, e10, e01, e11, e02, e12)

\* impl Mul<Vector2f> for Matrix2x3
Mat23_mul_vec2(m, v) ==
    LET x == simd_swizzle(v, <<0, 0>>)
        y == simd_swizzle(v, <<1, 1>>)
    IN  f_add(f_add(f_mul(m[1], x), f_mul(m[2], y)), m[3])

-----------------------------------------------------------------------------
(* src/lib.rs: Matrix4x4, four f32x4 columns                               *)

Mat4_IDENTITY ==
    << <<R(1), R(0), R(0), R(0)>>,
       <<R(0), R(1), R(0), R(0)>>,
       <<R(0), R(0), R(1), R(0)>>,
       <<R(0), R(0), R(0), R(1)>> >>

\* Index<(usize, usize)>: self.0[index.1][index.0], indexed (row, column).
Mat4_at(m, r, c) == m[c + 1][r + 1]

\* IndexMut<(usize, usize)>
Mat4_set(m, r, c, x) == [m EXCEPT ![c + 1][r + 1] = x]

Mat4_column(m, i) == m[i + 1]

Mat4_translation(t) ==
    Mat4_set(Mat4_set(Mat4_set(Mat4_IDENTITY, 0, 3, t[1]), 1, 3, t[2]), 2, 3, t[3])

Mat4_scaling(sc) ==
    Mat4_set(Mat4_set(Mat4_set(Mat4_IDENTITY, 0, 0, sc[1]), 1, 1, sc[2]), 2, 2, sc[3])

\* Matrix4x4::rotation(Quaternion)
Mat4_rotation(q) ==
    LET sqr   == Vec_mul_scalar("Vector4f",
                     Vec_mul("Vector4f", swizzle("Vector4f", q, <<0, 1, 2, 3>>),
                                         swizzle("Vector4f", q, <<0, 1, 2, 3>>)), R(2))
        xx    == sqr[1]
        yy    == sqr[2]
        zz    == sqr[3]
        perm1 == Vec_mul_scalar("Vector4f",
                     Vec_mul("Vector4f", swizzle("Vector4f", q, <<0, 0, 0, 2>>),
                                         swizzle("Vector4f", q, <<1, 2, 3, 3>>)), R(2))
        xy    == perm1[1]
        xz    == perm1[2]
        xw    == perm1[3]
        zw    == perm1[4]
        perm2 == Vec_mul_scalar("Vector3f",
                     Vec_mul("Vector3f", swizzle("Vector3f", q, <<1, 1, 2>>),
                                         swizzle("Vector3f", q, <<2, 3, 3>>)), R(2))
        yz    == perm2[1]
        yw    == perm2[2]
        e00   == RSub(RSub(R(1), yy), zz)
        e01   == RSub(xy, zw)
        e02   == RAdd(xz, yw)
        e10   == RAdd(xy, zw)
        e11   == RSub(RSub(R(1), xx), zz)
        e12   == RSub(yz, xw)
        e20   == RSub(xz, yw)
        e21   == RAdd(yz, xw)
        e22   == RSub(RSub(R(1), xx), yy)
    IN  << <<e00, e10, e20, R(0)>>,
           <<e01, e11, e21, R(0)>>,
           <<e02, e12, e22, R(0)>>,
           <<R(0), R(0), R(0), R(1)>> >>

\* impl Mul for Matrix4x4
Mat4_mul(lhs, rhs) ==
    [j \in 1..4 |->
        f_add(f_add(f_add(f_mul(lhs[1], f_splat(4, Mat4_at(rhs, 0, j - 1))),
                          f_mul(lhs[2], f_splat(4, Mat4_at(rhs, 1, j - 1)))),
                    f_mul(lhs[3], f_splat(4, Mat4_at(rhs, 2, j - 1)))),
              f_mul(lhs[4], f_splat(4, Mat4_at(rhs, 3, j - 1))))]

\* The three factors multiplied in the order scaling, rotation, translation.
Mat4_from_srt_reversed(sc, q, t) ==
    Mat4_mul(Mat4_mul(Mat4_scaling(sc), Mat4_rotation(q)), Mat4_translation(t))

Mat4_from_scale_rotation_translation(sc, q, t) ==
    Mat4_mul(Mat4_mul(Mat4_translation(t), Mat4_rotation(q)), Mat4_scaling(sc))

unpacklo(a, b) == simd_swizzle2(a, b, <<<<0, 0>>, <<1, 0>>, <<0, 1>>, <<1, 1>>>>)

unpackhi(a, b) == simd_swizzle2(a, b, <<<<0, 2>>, <<1, 2>>, <<0, 3>>, <<1, 3>>>>)

movelh(a, b) == simd_swizzle2(a, b, <<<<0, 0>>, <<0, 1>>, <<1, 0>>, <<1, 1>>>>)

\* movehl with its two operands taken in the other order.
movehl_swapped(a, b) == simd_swizzle2(a, b, <<<<0, 2>>, <<0, 3>>, <<1, 2>>, <<1, 3>>>>)

movehl(a, b) == simd_swizzle2(a, b, <<<<1, 2>>, <<1, 3>>, <<0, 2>>, <<0, 3>>>>)

\* Matrix4x4::transposed
Mat4_transposed(m) ==
    LET c0   == m[1]
        c1   == m[2]
        c2   == m[3]
        c3   == m[4]
        tmp0 == unpacklo(c0, c1)
        tmp2 == unpacklo(c2, c3)
        tmp1 == unpackhi(c0, c1)
        tmp3 == unpackhi(c2, c3)
    IN  <<movelh(tmp0, tmp2), movehl(tmp2, tmp0), movelh(tmp1, tmp3), movehl(tmp3, tmp1)>>

\* A cofactor expansion that does not alternate its signs.
Mat4_det_SIGN_unsigned == <<R(1), R(1), R(1), R(1)>>

\* const SIGN in Matrix4x4::determinant
Mat4_det_SIGN == <<R(1), R(-1), R(1), R(-1)>>

\* The determinant of a block-diagonal matrix only: that of the upper left
\* 2x2 block times that of the lower right one.
Mat4_determinant_blockdiag(m) ==
    LET e(r, c) == Mat4_at(m, r, c)
    IN  RMul(RSub(RMul(e(0, 0), e(1, 1)), RMul(e(0, 1), e(1, 0))),
             RSub(RMul(e(2, 2), e(3, 3)), RMul(e(2, 3), e(3, 2))))

\* Matrix4x4::determinant
Mat4_determinant(m) ==
    LET e(r, c) == Mat4_at(m, r, c)
        M2(p, q, r, t) == RSub(RMul(p, q), RMul(r, t))
        d2323 == M2(e(2, 2), e(3, 3), e(3, 2), e(2, 3))
        d1323 == M2(e(1, 2), e(3, 3), e(3, 2), e(1, 3))
        d1223 == M2(e(1, 2), e(2, 3), e(2, 2), e(1, 3))
        d0323 == M2(e(0, 2), e(3, 3), e(3, 2), e(0, 3))
        d0223 == M2(e(0, 2), e(2, 3), e(2, 2), e(0, 3))
        d0123 == M2(e(0, 2), e(1, 3), e(1, 2), e(0, 3))
        M3(x, p, y, q, z, r) == RAdd(RSub(RMul(x, p), RMul(y, q)), RMul(z, r))
        a == M3(e(1, 1), d2323, e(2, 1), d1323, e(3, 1), d1223)
        b == M3(e(0, 1), d2323, e(2, 1), d0323, e(3, 1), d0223)
        c == M3(e(0, 1), d1323, e(1, 1), d0323, e(3, 1), d0123)
        d == M3(e(0, 1), d1223, e(1, 1), d0223, e(2, 1), d0123)
        prod == f_mul(f_mul(m[1], <<a, b, c, d>>), Mat4_det_SIGN)
    IN  f_reduce_sum(prod)

\* The inverse of a transform without the test against f32::EPSILON: every
\* lane is scaled by one / size_sqr.
Mat4_transform_inverse_unguarded(m) ==
    LET t0 == simd_swizzle_0101(m[1], m[2])
        t1 == simd_swizzle_2323(m[1], m[2])
        c0 == simd_swizzle2(t0, m[3], <<<<0, 0>>, <<0, 2>>, <<1, 0>>, <<1, 3>>>>)
        c1 == simd_swizzle2(t0, m[3], <<<<0, 1>>, <<0, 3>>, <<1, 1>>, <<1, 3>>>>)
        c2 == simd_swizzle2(t1, m[3], <<<<0, 0>>, <<0, 2>>, <<1, 2>>, <<1, 3>>>>)
        size_sqr == f_add(f_add(f_mul(c0, c0), f_mul(c1, c1)), f_mul(c2, c2))
        scale == f_div(f_splat(4, R(1)), size_sqr)
        s0 == f_mul(c0, scale)
        s1 == f_mul(c1, scale)
        s2 == f_mul(c2, scale)
        r3 == f_add(f_add(f_mul(s0, simd_swizzle_1(m[4], 0)),
                          f_mul(s1, simd_swizzle_1(m[4], 1))),
                    f_mul(s2, simd_swizzle_1(m[4], 2)))
    IN  <<s0, s1, s2, f_sub(<<R(0), R(0), R(0), R(1)>>, r3)>>

\* Matrix4x4::transform_inverse
Mat4_transform_inverse(m) ==
    LET t0 == simd_swizzle_0101(m[1], m[2])
        t1 == simd_swizzle_2323(m[1], m[2])
        c0 == simd_swizzle2(t0, m[3], <<<<0, 0>>, <<0, 2>>, <<1, 0>>, <<1, 3>>>>)
        c1 == simd_swizzle2(t0, m[3], <<<<0, 1>>, <<0, 3>>, <<1, 1>>, <<1, 3>>>>)
        c2 == simd_swizzle2(t1, m[3], <<<<0, 0>>, <<0, 2>>, <<1, 2>>, <<1, 3>>>>)
        size_sqr == f_add(f_add(f_mul(c0, c0), f_mul(c1, c1)), f_mul(c2, c2))
        one == f_splat(4, R(1))
        eps == f_splat(4, F32_EPSILON)
        recp == f_div(one, size_sqr)
        scale == [k \in 1..4 |-> IF RLt(size_sqr[k], eps[k]) THEN one[k] ELSE recp[k]]
        s0 == f_mul(c0, scale)
        s1 == f_mul(c1, scale)
        s2 == f_mul(c2, scale)
        r3 == f_add(f_add(f_mul(s0, simd_swizzle_1(m[4], 0)),
                          f_mul(s1, simd_swizzle_1(m[4], 1))),
                    f_mul(s2, simd_swizzle_1(m[4], 2)))
        LAST == <<R(0), R(0), R(0), R(1)>>
    IN  <<s0, s1, s2, f_sub(LAST, r3)>>

\* 2x2 matrix multiply A*B
mul_mat2(lhs, rhs) ==
    f_add(f_mul(lhs, simd_swizzle(rhs, <<0, 3, 0, 3>>)),
          f_mul(simd_swizzle(lhs, <<1, 0, 3, 2>>), simd_swizzle(rhs, <<2, 1, 2, 1>>)))

\* (A#)*B with the adjugate forgotten: the plain product A*B.
adj_mul_mat2_plain(lhs, rhs) == mul_mat2(lhs, rhs)

\* 2x2 matrix adjugate multiply (A#)*B
adj_mul_mat2(lhs, rhs) ==
    f_sub(f_mul(simd_swizzle(lhs, <<3, 3, 0, 0>>), rhs),
          f_mul(simd_swizzle(lhs, <<1, 1, 2, 2>>), simd_swizzle(rhs, <<2, 3, 0, 1>>)))

\* 2x2 matrix multiply adjugate A*(B#)
mul_adj_mat2(lhs, rhs) ==
    f_sub(f_mul(lhs, simd_swizzle(rhs, <<3, 0, 3, 0>>)),
          f_mul(simd_swizzle(lhs, <<1, 0, 3, 2>>), simd_swizzle(rhs, <<2, 1, 2, 1>>)))

\* The blocks Matrix4x4::inverse computes before it divides: the adjugate
\* blocks X#, Y#, Z#, W# and the determinant det_m (in every lane).
Mat4_inverse_blocks(m) ==
    LET a == simd_swizzle_0101(m[1], m[2])
        b == simd_swizzle_2323(m[1], m[2])
        c == simd_swizzle_0101(m[3], m[4])
        d == simd_swizzle_2323(m[3], m[4])
        det_sub ==
            f_sub(f_mul(simd_swizzle2(m[1], m[3], <<<<0, 0>>, <<0, 2>>, <<1, 0>>, <<1, 2>>>>),
                        simd_swizzle2(m[2], m[4], <<<<0, 1>>, <<0, 3>>, <<1, 1>>, <<1, 3>>>>)),
                  f_mul(simd_swizzle2(m[1], m[3], <<<<0, 1>>, <<0, 3>>, <<1, 1>>, <<1, 3>>>>),
                        simd_swizzle2(m[2], m[4], <<<<0, 0>>, <<0, 2>>, <<1, 0>>, <<1, 2>>>>)))
        det_a == simd_swizzle_1(det_sub, 0)
        det_b == simd_swizzle_1(det_sub, 1)
        det_c == simd_swizzle_1(det_sub, 2)
        det_d == simd_swizzle_1(det_sub, 3)
        d_c == adj_mul_mat2(d, c)
        a_b == adj_mul_mat2(a, b)
        x == f_sub(f_mul(det_d, a), mul_mat2(b, d_c))
        w == f_sub(f_mul(det_a, d), mul_mat2(c, a_b))
        y == f_sub(f_mul(det_b, c), mul_adj_mat2(d, a_b))
        z == f_sub(f_mul(det_c, b), mul_adj_mat2(a, d_c))
        tr == f_mul(a_b, simd_swizzle(d_c, <<0, 2, 1, 3>>))
        det_m == f_sub(f_add(f_mul(det_a, det_d), f_mul(det_b, det_c)),
                       f_splat(4, f_reduce_sum(tr)))
    IN  [x |-> x, y |-> y, z |-> z, w |-> w, det_m |-> det_m]

\* The columns Matrix4x4::inverse assembles from the four 2x2 blocks.
Mat4_inverse_assemble(x, y, z, w) ==
    << simd_swizzle2(x, y, <<<<0, 3>>, <<0, 1>>, <<1, 3>>, <<1, 1>>>>),
       simd_swizzle2(x, y, <<<<0, 2>>, <<0, 0>>, <<1, 2>>, <<1, 0>>>>),
       simd_swizzle2(z, w, <<<<0, 3>>, <<0, 1>>, <<1, 3>>, <<1, 1>>>>),
       simd_swizzle2(z, w, <<<<0, 2>>, <<0, 0>>, <<1, 2>>, <<1, 0>>>>) >>

ADJ_SIGN_MASK == <<R(1), R(-1), R(-1), R(1)>>

\* Matrix4x4::inverse
Mat4_inverse(m) ==
    LET blk == Mat4_inverse_blocks(m)
        r_det_m == f_div(ADJ_SIGN_MASK, blk.det_m)
        x == f_mul(blk.x, r_det_m)
        y == f_mul(blk.y, r_det_m)
        z == f_mul(blk.z, r_det_m)
        w == f_mul(blk.w, r_det_m)
    IN  Mat4_inverse_assemble(x, y, z, w)

\* impl Mul<Vector3f> for Matrix4x4
Mat4_mul_vec3(m, v) ==
    from_simd_truncate("Vector3f",
        f_add(f_add(f_add(f_mul(m[1], simd_swizzle_1(v, 0)),
                          f_mul(m[2], simd_swizzle_1(v, 1))),
                    f_mul(m[3], simd_swizzle_1(v, 2))),
              m[4]))

\* Matrix4x4::mul_no_translate
Mat4_mul_no_translate(m, v) ==
    from_simd_truncate("Vector3f",
        f_add(f_add(f_mul(m[1], simd_swizzle_1(v, 0)),
                    f_mul(m[2], simd_swizzle_1(v, 1))),
              f_mul(m[3], simd_swizzle_1(v, 2))))

\* Matrix4x4::from_yaw_pitch_roll
Mat4_from_yaw_pitch_roll(yaw, pitch, roll) ==
    LET rot == Quat_from_yaw_pitch_roll(yaw, pitch, roll) IN Mat4_rotation(rot)

\* The assertions with the near plane compared against zero.
perspective_panics_near0(fov_y, aspect_ratio, near_plane, far_plane) ==
    \/ ~(fov_y.sign > 0)
    \/ ~RLt(R(0), aspect_ratio)
    \/ ~RLt(R(0), near_plane)
    \/ ~RLt(near_plane, far_plane)

\* Matrix4x4::perspective: whether one of its four assert! fails.  fov_y is
\* an angle argument, the other three are f32.
perspective_panics(fov_y, aspect_ratio, near_plane, far_plane) ==
    \/ ~(fov_y.sign > 0)
    \/ ~RLt(R(0), aspect_ratio)
    \/ ~RLt(R(1), near_plane)
    \/ ~RLt(near_plane, far_plane)

\* Matrix4x4::perspective: the matrix it returns when no assertion fails.
Mat4_perspective(fov_y, aspect_ratio, near_plane, far_plane) ==
    LET sc == half_sin_cos(fov_y)
        h  == RDiv(sc[2], sc[1])
        w  == RDiv(h, aspect_ratio)
        r  == RDiv(far_plane, RSub(far_plane, near_plane))
        z  == RMul(RNeg(r), near_plane)
    IN  << <<w, R(0), R(0), R(0)>>,
           <<R(0), h, R(0), R(0)>>,
           <<R(0), R(0), r, R(1)>>,
           <<R(0), R(0), z, R(0)>> >>

-----------------------------------------------------------------------------
(* src/lib.rs: the declarations of the public types, #[repr(C, align(N))]  *)
(* around a SIMD register or an array of SIMD registers                    *)

PublicTypes == VecTypes \cup {"Quaternion", "Matrix2x3", "Matrix4x4"}

\* The number of 4-byte lanes of the SIMD register the type is made of:
\* f32x2 / i32x2 or f32x4 / i32x4.
RegisterLanes(ty) ==
    IF ty \in {"Vector2f", "Vector2i", "Matrix2x3"} THEN 2 ELSE 4

\* The number of registers in the type: its array length, or 1.
RegisterCount(ty) ==
    IF ty = "Matrix2x3" THEN 3 ELSE IF ty = "Matrix4x4" THEN 4 ELSE 1

\* The alignment align(N) would declare if it were the size of the type
\* rounded up to a power of two.
ReprAlign_natural(ty) == next_power_of_two(RegisterCount(ty) * RegisterLanes(ty) * 4)

\* The N of the type's #[repr(C, align(N))].
ReprAlign(ty) ==
    IF ty \in {"Vector2f", "Vector2i", "Matrix2x3"} THEN 8 ELSE 16

\* The alignments a target may give a SIMD register of `lanes` 4-byte
\* lanes: a power of two from that of a lane up to the register's size.
SimdAligns(lanes) == {a \in {4, 8, 16} : a <= lanes * 4}

\* align_of: the larger of the declared alignment and the field's.
AlignOf(ty, simdAlign) == IF ReprAlign(ty) > simdAlign THEN ReprAlign(ty) ELSE simdAlign

\* size_of: the registers one after the other, rounded up to a multiple of
\* the alignment.
SizeOf(ty, simdAlign) ==
    LET bytes == RegisterCount(ty) * RegisterLanes(ty) * 4
        align == AlignOf(ty, simdAlign)
    IN  ((bytes + align - 1) \div align) * align

-----------------------------------------------------------------------------
(* The matrix state machine: a matrix built by a public constructor, the   *)
(* element writes the caller makes to it, and the methods called on it.    *)

\* The largest magnitude of a value the caller writes into an element.
MaxElem == 1

MatTypes == {"Matrix2x3", "Matrix4x4"}

Rows(ty) == IF ty = "Matrix2x3" THEN 2 ELSE 4

Cols(ty) == IF ty = "Matrix2x3" THEN 3 ELSE 4

\* from_array / new: the columns, given as integers.
Mat_from_ints(cols) == [j \in 1..Len(cols) |-> [i \in 1..Len(cols[j]) |-> R(cols[j][i])]]

Mat4Arrays ==
    { << <<1, 2, 0, 1>>, <<0, 1, 3, 0>>, <<2, 0, 1, 1>>, <<1, 1, 0, 2>> >>,
      << <<1, 2, 3, 4>>, <<5, 6, 7, 8>>, <<9, 10, 11, 12>>, <<13, 14, 15, 16>> >>,
      << <<2, -1, 1, 3>>, <<1, 1, -1, 2>>, <<1, 3, 1, -2>>, <<-1, 2, 2, 1>> >>,
      << <<1, 0, 0, 0>>, <<0, 2, 0, 0>>, <<0, 0, -3, -1>>, <<0, 0, -4, 0>> >> }

Mat23Arrays ==
    { << <<1, 0>>, <<1, 1>>, <<0, 0>> >>,
      << <<1, 2>>, <<2, 4>>, <<1, 1>> >>,
      << <<2, 1>>, <<-1, 3>>, <<4, -2>> >> }

\* Unit quaternions with rational components: the identity, a turn of 120
\* degrees about (1,1,1) and a turn about z with sine 24/25.
UnitQuats ==
    { Quat_IDENTITY,
      <<Frac(1, 2), Frac(1, 2), Frac(1, 2), Frac(1, 2)>>,
      <<R(0), R(0), Frac(3, 5), Frac(4, 5)>> }

\* <<sin, cos>> of the angles with a rational sine and cosine that are used.
SinCos == { <<R(0), R(1)>>, <<R(1), R(0)>>, <<Frac(3, 5), Frac(4, 5)>> }

Scales3 == { <<R(1), R(1), R(1)>>, <<R(2), R(-1), Frac(1, 2)>> }

\* A scale whose square is below f32::EPSILON.
TinyScales3 == { <<Frac(1, 4096), R(1), R(1)>> }

Translations3 == { <<R(0), R(0), R(0)>>, <<R(1), R(-2), R(3)>> }

Scales2 == { <<R(1), R(1)>>, <<R(2), Frac(-1, 2)>> }

Translations2 == { <<R(0), R(0)>>, <<R(1), R(-2)>> }

V3(c) == Vec_new("Vector3f", c)

V2(c) == Vec_new("Vector2f", c)

\* The matrices the public constructors build.
Constructed(ty) ==
    IF ty = "Matrix2x3"
    THEN {Mat23_IDENTITY}
         \cup {Mat_from_ints(a) : a \in Mat23Arrays}
         \cup {Mat23_from_scale_rotation_translation(V2(sc), r, V2(t)) :
                   sc \in Scales2, r \in SinCos, t \in Translations2}
    ELSE {Mat4_IDENTITY}
         \cup {Mat_from_ints(a) : a \in Mat4Arrays}
         \cup {Mat4_from_scale_rotation_translation(V3(sc), q, V3(t)) :
                   sc \in Scales3, q \in UnitQuats, t \in Translations3}
         \cup {Mat4_from_scale_rotation_translation(V3(sc), q, V3(t)) :
                   sc \in TinyScales3, q \in UnitQuats \ {<<R(0), R(0), Frac(3, 5), Frac(4, 5)>>},
                   t \in Translations3}

\* The right-hand operands of a matrix product.
MulOperands(ty) ==
    IF ty = "Matrix2x3"
    THEN { Mat23_translation(V2(<<R(1), R(-2)>>)),
           Mat23_rotation(<<R(1), R(0)>>),
           Mat_from_ints(<< <<1, 0>>, <<1, 1>>, <<0, 0>> >>) }
    ELSE { Mat4_translation(V3(<<R(1), R(-2), R(3)>>)),
           Mat4_rotation(<<Frac(1, 2), Frac(1, 2), Frac(1, 2), Frac(1, 2)>>),
           Mat_from_ints(<< <<1, 0, 0, 0>>, <<0, 2, 0, 0>>, <<0, 0, -3, -1>>, <<0, 0, -4, 0>> >>) }

\* The values the caller writes into an element.
ElemValues == {R(n) : n \in (-MaxElem)..MaxElem}

Mat_at(ty, m, r, c) == IF ty = "Matrix2x3" THEN Mat23_at(m, r, c) ELSE Mat4_at(m, r, c)

Mat_set(ty, m, r, c, x) ==
    IF ty = "Matrix2x3" THEN Mat23_set(m, r, c, x) ELSE Mat4_set(m, r, c, x)

Mat_IDENTITY(ty) == IF ty = "Matrix2x3" THEN Mat23_IDENTITY ELSE Mat4_IDENTITY

Mat_mul(ty, a, b) == IF ty = "Matrix2x3" THEN Mat23_mul(a, b) ELSE Mat4_mul(a, b)

Mat_inverse(ty, m) == IF ty = "Matrix2x3" THEN Mat23_inverse(m) ELSE Mat4_inverse(m)

Mat_determinant(ty, m) ==
    IF ty = "Matrix2x3" THEN Mat23_determinant(m) ELSE Mat4_determinant(m)

InitMat ==
    /\ mty \in MatTypes
    /\ mat \in Constructed(mty)
    /\ mop = "none"
    /\ marg = mat
    /\ mres = mat
    /\ medited = FALSE

\* A method taking &self (and `arg`) that returns `result`.
MatStep(name, arg, result) ==
    /\ mop = "none"
    /\ mop' = name
    /\ marg' = arg
    /\ mres' = result
    /\ UNCHANGED <<mty, mat, medited, swzVars, vecVars>>

MatMul == \E b \in MulOperands(mty) : MatStep("mul", b, Mat_mul(mty, mat, b))

MatDeterminant == MatStep("determinant", mat, Mat_determinant(mty, mat))

MatInverse == MatStep("inverse", mat, Mat_inverse(mty, mat))

MatTransformInverse ==
    /\ mty = "Matrix4x4"
    /\ MatStep("transform_inverse", mat, Mat4_transform_inverse(mat))

MatTransposed ==
    /\ mty = "Matrix4x4"
    /\ MatStep("transposed", mat, Mat4_transposed(mat))

\* The error bounds is_identity is called with.
Epsilons == { R(0), R(1) }

MatIsIdentity == \E epsilon \in Epsilons :
    MatStep("is_identity", epsilon, Mat_is_identity(mat, Mat_IDENTITY(mty), epsilon))

\* m[(r, c)] = x, written once into the matrix as constructed.
MatIndexMut == \E r \in 0..(Rows(mty) - 1), c \in 0..(Cols(mty) - 1), x \in ElemValues :
    /\ mop = "none"
    /\ ~medited
    /\ mat' = Mat_set(mty, mat, r, c, x)
    /\ marg' = mat'
    /\ mres' = mat'
    /\ medited' = TRUE
    /\ UNCHANGED <<mty, mop, swzVars, vecVars>>

\* The caller goes on with the product of the constructed matrix.
MatKeep ==
    /\ mop = "mul"
    /\ ~medited
    /\ mat' = mres
    /\ mop' = "none"
    /\ marg' = mres
    /\ medited' = TRUE
    /\ UNCHANGED <<mty, mres, swzVars, vecVars>>

\* The caller drops the returned value and goes on with the matrix it holds.
MatReturn ==
    /\ mop # "none"
    /\ mop' = "none"
    /\ marg' = mat
    /\ mres' = mat
    /\ UNCHANGED <<mty, mat, medited, swzVars, vecVars>>

NextMat ==
    \/ MatMul \/ MatDeterminant \/ MatInverse \/ MatTransformInverse \/ MatTransposed
    \/ MatIsIdentity \/ MatIndexMut \/ MatKeep \/ MatReturn

-----------------------------------------------------------------------------
(* The vector state machine: a value built by a public constructor, and    *)
(* the public operations applied to it.                                    *)

\* The largest numerator and denominator (magnitude, for i32) of a lane the
\* model follows.
MaxMag == 1

\* The largest index tried on Index / IndexMut.
MaxIndex == 4

OperandComps == {<<1, 1, 1, 1>>, <<1, 2, -1, 2>>, <<-1, 0, 2, 1>>}

OperandScalars == {-1, 0, 2}

\* The vectors the public constructors build from the operand components.
Operands(ty) == {Vec_new(ty, [k \in 1..4 |-> Scalar(ty, c[k])]) : c \in OperandComps}

Scalars(ty) == {Scalar(ty, n) : n \in OperandScalars}

LaneInWindow(ty, x) ==
    IF IsFloat(ty) THEN x[2] = 0 \/ (Abs(x[1]) <= MaxMag /\ x[2] <= MaxMag)
    ELSE Abs(x) <= MaxMag

InWindow(ty, a) == \A k \in 1..Lanes(ty) : LaneInWindow(ty, a[k])

\* No call is being observed: the caller holds the value `vec`.
NoOp == [name |-> "none", idx |-> 0, abort |-> FALSE]

InitVec ==
    /\ vty \in VecTypes
    /\ vec \in Operands(vty)
    /\ vop = NoOp
    /\ vprev = vec
    /\ vrhs = vec

\* An operation with right-hand operand `rhs` that returns `result` or, when
\* `aborts`, panics and leaves the value as it was.
VecStep(name, i, rhs, result, aborts) ==
    /\ vop = NoOp
    /\ vop' = [name |-> name, idx |-> i, abort |-> aborts]
    /\ vprev' = vec
    /\ vrhs' = rhs
    /\ vec' = IF aborts THEN vec ELSE result
    /\ InWindow(vty, vec')
    /\ UNCHANGED <<vty, swzVars, matVars>>

Unary(name, result) == VecStep(name, 0, vec, result, FALSE)

New == \E b \in Operands(vty) : VecStep("new", 0, b, b, FALSE)

FromScalar == \E s \in Scalars(vty) :
    VecStep("from_scalar", 0, splat(vty, s), Vec_from_scalar(vty, s), FALSE)

Add == \E b \in Operands(vty) : VecStep("add", 0, b, Vec_add(vty, vec, b), FALSE)

Sub == \E b \in Operands(vty) : VecStep("sub", 0, b, Vec_sub(vty, vec, b), FALSE)

Neg == Unary("neg", Vec_neg(vty, vec))

Mul == \E b \in Operands(vty) : VecStep("mul", 0, b, Vec_mul(vty, vec, b), FALSE)

Div == \E b \in Operands(vty) :
    VecStep("div", 0, b, Vec_div(vty, vec, b), simd_div_panics(vty, b))

Rem == \E b \in Operands(vty) :
    VecStep("rem", 0, b, Vec_rem(vty, vec, b), simd_div_panics(vty, b))

AddScalar == \E s \in Scalars(vty) :
    VecStep("add_scalar", 0, splat(vty, s), Vec_add_scalar(vty, vec, s), FALSE)

SubScalar == \E s \in Scalars(vty) :
    VecStep("sub_scalar", 0, splat(vty, s), Vec_sub_scalar(vty, vec, s), FALSE)

MulScalar == \E s \in Scalars(vty) :
    VecStep("mul_scalar", 0, splat(vty, s), Vec_mul_scalar(vty, vec, s), FALSE)

DivScalar == \E s \in Scalars(vty) :
    VecStep("div_scalar", 0, splat(vty, s), Vec_div_scalar(vty, vec, s),
            simd_div_panics(vty, splat(vty, s)))

RemScalar == \E s \in Scalars(vty) :
    VecStep("rem_scalar", 0, splat(vty, s), Vec_rem_scalar(vty, vec, s),
            simd_div_panics(vty, splat(vty, s)))

\* v[i]: reads a lane, or panics.
IndexRead == \E i \in 0..MaxIndex :
    VecStep("index", i, splat(vty, IF index_panics(vty, i) THEN ZeroOf(vty) ELSE Vec_index(vec, i)),
            vec, index_panics(vty, i))

\* v[i] = s: writes a lane, or panics.
IndexWrite == \E i \in 0..MaxIndex, s \in Scalars(vty) :
    VecStep("index_mut", i, splat(vty, s), Vec_index_mut(vec, i, s), index_panics(vty, i))

\* *v.x_mut() = s and its siblings: def_field! is instantiated for i < N only.
FieldWrite == \E i \in 0..(Dim(vty) - 1), s \in Scalars(vty) :
    VecStep("field_mut", i, splat(vty, s), Vec_index_mut(vec, i, s), FALSE)

\* v.as_mut_array()[i] = s: the array has N elements.
ArrayWrite == \E i \in 0..MaxIndex, s \in Scalars(vty) :
    VecStep("as_mut_array", i, splat(vty, s), Vec_index_mut(vec, i, s), i >= Dim(vty))

AbsOp == Unary("abs", Vec_abs(vty, vec))

Min == \E b \in Operands(vty) : VecStep("min", 0, b, Vec_min(vty, vec, b), FALSE)

Max == \E b \in Operands(vty) : VecStep("max", 0, b, Vec_max(vty, vec, b), FALSE)

Recip == IsFloat(vty) /\ Unary("recip", Vec_recip(vty, vec))

Floor == IsFloat(vty) /\ Unary("floor", Vec_floor(vty, vec))

Ceil == IsFloat(vty) /\ Unary("ceil", Vec_ceil(vty, vec))

Fract == IsFloat(vty) /\ Unary("fract", Vec_fract(vty, vec))

MulAdd == IsFloat(vty) /\ \E a \in Operands(vty), b \in Operands(vty) :
    VecStep("mul_add", 0, b, Vec_mul_add(vty, vec, a, b), FALSE)

Lerp == IsFloat(vty) /\ \E b \in Operands(vty), t \in Scalars(vty) :
    VecStep("lerp", 0, b, Vec_lerp(vty, vec, b, t), FALSE)

\* normalized(), on the inputs whose length is a rational.
Normalized ==
    /\ IsFloat(vty)
    /\ HasExactSqrt(Vec_len2(vty, vec))
    /\ Unary("normalized", Vec_normalized(vty, vec))

Cross == vty = "Vector3f" /\ \E b \in Operands(vty) :
    VecStep("cross", 0, b, Vector3f_cross(vec, b), FALSE)

ToFloat ==
    /\ vop = NoOp
    /\ ~IsFloat(vty)
    /\ vty' = FloatTypeOf(vty)
    /\ vec' = Vec_to_float(vec)
    /\ vop' = [name |-> "to_float", idx |-> 0, abort |-> FALSE]
    /\ vprev' = vec'
    /\ vrhs' = vec'
    /\ UNCHANGED <<swzVars, matVars>>

\* The result type of a swizzle accessor of output width m.
TypeOfWidth(ty, m) ==
    IF IsFloat(ty)
    THEN (IF m = 2 THEN "Vector2f" ELSE IF m = 3 THEN "Vector3f" ELSE "Vector4f")
    ELSE (IF m = 2 THEN "Vector2i" ELSE IF m = 3 THEN "Vector3i" ELSE "Vector4i")

\* The selections of the generated accessors that are called: yx, xx, zyx,
\* yyx, wzy, xyxy and wzyx.
SwizzleSels ==
    {<<1, 0>>, <<0, 0>>, <<2, 1, 0>>, <<1, 1, 0>>, <<3, 2, 1>>, <<0, 1, 0, 1>>, <<3, 2, 1, 0>>}

\* A generated swizzle accessor; the caller goes on with the vector it returns.
Swizzle == \E sel \in SwizzleSels :
    /\ vop = NoOp
    /\ \A k \in 1..Len(sel) : sel[k] < Dim(vty)
    /\ vty' = TypeOfWidth(vty, Len(sel))
    /\ vec' = swizzle(vty', vec, sel)
    /\ vop' = [name |-> "swizzle", idx |-> 0, abort |-> FALSE]
    /\ vprev' = vec'
    /\ vrhs' = vec'
    /\ UNCHANGED <<swzVars, matVars>>

\* Matrix4x4 * Vector3f
MatMulVec == vty = "Vector3f" /\ \E m \in MulOperands("Matrix4x4") :
    VecStep("mat4_mul", 0, vec, Mat4_mul_vec3(m, vec), FALSE)

\* Matrix4x4::mul_no_translate
MatMulNoTranslate == vty = "Vector3f" /\ \E m \in MulOperands("Matrix4x4") :
    VecStep("mul_no_translate", 0, vec, Mat4_mul_no_translate(m, vec), FALSE)

\* Quaternion * Vector3f
QuatMulVec == vty = "Vector3f" /\ \E q \in UnitQuats :
    VecStep("quat_mul", 0, vec, Quat_mul_vec3(q, vec), FALSE)

\* The call has returned (or its panic was caught): the caller goes on with
\* the value it now holds.
Return ==
    /\ vop # NoOp
    /\ vop' = NoOp
    /\ vprev' = vec
    /\ vrhs' = vec
    /\ UNCHANGED <<vty, vec, swzVars, matVars>>

NextVec ==
    \/ New \/ FromScalar
    \/ Add \/ Sub \/ Neg \/ Mul \/ Div \/ Rem
    \/ AddScalar \/ SubScalar \/ MulScalar \/ DivScalar \/ RemScalar
    \/ IndexRead \/ IndexWrite \/ FieldWrite \/ ArrayWrite
    \/ AbsOp \/ Min \/ Max \/ Recip \/ Floor \/ Ceil \/ Fract
    \/ MulAdd \/ Lerp \/ Normalized \/ Cross \/ ToFloat
    \/ Swizzle \/ MatMulVec \/ MatMulNoTranslate \/ QuatMulVec
    \/ Return

-----------------------------------------------------------------------------
(* The kernels as functions: a first argument is drawn, one kernel is      *)
(* applied to it and to further arguments, and its value is observed.      *)

\* The types of the first argument: the float vectors, Vector3i, Quaternion,
\* and f32 for the associated functions that take an angle first.
FnTypes == VecTypes \cup {"Quaternion", "f32"}

\* The quaternions used as arguments: unit ones (among them pairs with a
\* negative dot product, equal and opposite pairs), the zero quaternion and
\* two that are not unit.
QuatValues ==
    { Quat_IDENTITY,
      Quat_new(R(1), R(0), R(0), R(0)),
      Quat_new(R(0), R(1), R(0), R(0)),
      Quat_new(R(0), R(0), R(1), R(0)),
      Quat_new(R(0), R(0), R(0), R(-1)),
      Quat_new(Frac(1, 2), Frac(1, 2), Frac(1, 2), Frac(1, 2)),
      Quat_new(R(0), R(0), Frac(3, 5), Frac(4, 5)),
      Quat_new(R(0), R(0), Frac(-3, 5), Frac(4, 5)),
      Quat_new(R(0), Frac(3, 5), R(0), Frac(-4, 5)),
      Quat_new(R(0), R(0), Frac(-24, 25), Frac(-7, 25)),
      Quat_new(R(0), R(0), R(0), R(0)),
      Quat_new(R(0), R(3), R(0), R(4)),
      Quat_new(R(1), R(1), R(1), R(0)) }

\* The angles used as arguments: 0, pi, -pi, 2 pi, and plus and minus
\* 2 atan(3/4).
Angles ==
    { Angle(0, R(0), R(1)),
      Angle(1, R(1), R(0)),
      Angle(-1, R(-1), R(0)),
      Angle(1, R(0), R(-1)),
      Angle(1, Frac(3, 5), Frac(4, 5)),
      Angle(-1, Frac(-3, 5), Frac(4, 5)) }

\* The f32 arguments of perspective other than the angle.
AspectRatios == { R(-1), R(0), R(2) }

NearPlanes == { Frac(1, 2), R(1), R(2) }

FarPlanes == { R(1), R(2), R(4), PInf }

LaneValues(ty) == {Scalar(ty, n) : n \in (-MaxMag)..MaxMag}

\* What the padding lane of a 3-component register holds: zero, or not zero
\* after an element write at index 3.
PaddingValues(ty) == {ZeroOf(ty), Scalar(ty, -1)}

\* UNIT_X, UNIT_Y, ...: the unit vectors of the type.
UnitVectors(ty) ==
    {Vec_new(ty, [k \in 1..4 |-> Scalar(ty, IF k = i THEN 1 ELSE 0)]) : i \in 1..Dim(ty)}

IntTypes == VecTypes \ FloatTypes

\* Components at and near the ends of the i32 range, and factors whose
\* products pass them.
ExtremeComps ==
    { <<I32_MAX, I32_MIN, 1, -1>>,
      <<I32_MIN, I32_MAX, 65536, 46341>>,
      <<-65536, 46341, I32_MIN + 1, I32_MAX - 1>> }

ExtremeVectors(ty) == {Vec_new(ty, c) : c \in ExtremeComps}

ExtremeScalars == { I32_MAX, I32_MIN, 1, -1, 65536 }

\* Every register of the type with components in the window and, for a
\* padded type, each of the padding values; for Vector3i also the extreme
\* vectors; for Vector2i and Vector4i the extreme vectors, the zero and unit
\* vectors and the operands of the vector machine.
FnValues(ty) ==
    CASE ty = "Quaternion" -> QuatValues
      [] ty = "f32"        -> Angles
      [] ty \in {"Vector2i", "Vector4i"} ->
           ExtremeVectors(ty) \cup UnitVectors(ty) \cup Operands(ty)
               \cup {Vec_new(ty, <<0, 0, 0, 0>>)}
      [] OTHER             ->
           {[k \in 1..Lanes(ty) |-> IF k <= Dim(ty) THEN c[k] ELSE p] :
                c \in [1..Dim(ty) -> LaneValues(ty)], p \in PaddingValues(ty)}
           \cup (IF IsFloat(ty) THEN {} ELSE ExtremeVectors(ty))

\* The second vector argument: the operands of the vector machine, the unit
\* vectors, the first
\* argument itself and, for a padded type, the first argument with each of
\* the padding values.
FnOperands(ty, a) ==
    Operands(ty) \cup UnitVectors(ty) \cup {a}
        \cup (IF ty \in PaddedTypes
              THEN {[a EXCEPT ![4] = x] : x \in PaddingValues(ty)}
              ELSE {})

InitFn ==
    /\ vty \in FnTypes
    /\ vec \in FnValues(vty)
    /\ vop = NoOp
    /\ vprev = vec
    /\ vrhs = vec

\* A kernel applied to the first argument `vec` and to `args`: it returns
\* `result` or, when `aborts`, panics.
FnStep(name, args, result, aborts) ==
    /\ vop = NoOp
    /\ vop' = [name |-> name, idx |-> 0, abort |-> aborts]
    /\ vprev' = vec
    /\ vrhs' = args
    /\ vec' = IF aborts THEN vec ELSE result
    /\ UNCHANGED <<vty, swzVars, matVars>>

FnCross == vop = NoOp /\ vty = "Vector3f" /\ \E b \in FnOperands(vty, vec) :
    FnStep("cross", b, Vector3f_cross(vec, b), FALSE)

FnCross2 == vop = NoOp /\ vty = "Vector2f" /\ \E b \in FnOperands(vty, vec) :
    FnStep("cross", b, Vector2f_cross(vec, b), FALSE)

FnNormalized ==
    /\ vop = NoOp
    /\ vty \in FloatTypes
    /\ HasExactSqrt(Vec_len2(vty, vec))
    /\ FnStep("normalized", vec, Vec_normalized(vty, vec), FALSE)

FnEq == vop = NoOp /\ vty \in PaddedTypes /\ \E b \in FnOperands(vty, vec) :
    FnStep("eq", b, Vec3_eq(vty, vec, b), FALSE)

FnHash == vop = NoOp /\ vty = "Vector3i" /\ FnStep("hash", vec, Vector3i_hash(vec), FALSE)

\* The right-hand operands of the integer operators.
IntOperands(ty, a) == FnOperands(ty, a) \cup ExtremeVectors(ty)

FnIntAdd == vop = NoOp /\ vty \in IntTypes /\ \E b \in IntOperands(vty, vec) :
    FnStep("add", b, Vec_add(vty, vec, b), FALSE)

FnIntSub == vop = NoOp /\ vty \in IntTypes /\ \E b \in IntOperands(vty, vec) :
    FnStep("sub", b, Vec_sub(vty, vec, b), FALSE)

FnIntMul == vop = NoOp /\ vty \in IntTypes /\ \E b \in IntOperands(vty, vec) :
    FnStep("mul", b, Vec_mul(vty, vec, b), FALSE)

FnIntAddScalar == vop = NoOp /\ vty \in IntTypes /\ \E s \in ExtremeScalars :
    FnStep("add_scalar", splat(vty, s), Vec_add_scalar(vty, vec, s), FALSE)

FnIntSubScalar == vop = NoOp /\ vty \in IntTypes /\ \E s \in ExtremeScalars :
    FnStep("sub_scalar", splat(vty, s), Vec_sub_scalar(vty, vec, s), FALSE)

FnIntMulScalar == vop = NoOp /\ vty \in IntTypes /\ \E s \in ExtremeScalars :
    FnStep("mul_scalar", splat(vty, s), Vec_mul_scalar(vty, vec, s), FALSE)

FnIntNeg == vop = NoOp /\ vty \in IntTypes /\ FnStep("neg", vec, Vec_neg(vty, vec), FALSE)

FnIntAbs == vop = NoOp /\ vty \in IntTypes /\ FnStep("abs", vec, Vec_abs(vty, vec), FALSE)

FnSrtTransform3 == vop = NoOp /\ vty = "Vector3f" /\ \E sc \in Scales3, q \in UnitQuats, t \in Translations3 :
    FnStep("srt_transform", <<V3(sc), q, V3(t)>>,
           Mat4_mul_vec3(Mat4_from_scale_rotation_translation(V3(sc), q, V3(t)), vec),
           FALSE)

FnSrtTransform2 == vop = NoOp /\ vty = "Vector2f" /\ \E sc \in Scales2, r \in SinCos, t \in Translations2 :
    FnStep("srt_transform", <<V2(sc), r, V2(t)>>,
           Mat23_mul_vec2(Mat23_from_scale_rotation_translation(V2(sc), r, V2(t)), vec),
           FALSE)

QuatMul == vop = NoOp /\ vty = "Quaternion" /\ \E q \in QuatValues :
    FnStep("mul", q, Quat_mul(vec, q), FALSE)

QuatNormalized ==
    /\ vop = NoOp
    /\ vty = "Quaternion"
    /\ HasExactSqrt(Vec_len2("Vector4f", Quat_xyzw(vec)))
    /\ FnStep("normalized", vec, Quat_normalized(vec), FALSE)

QuatSlerp == vop = NoOp /\ vty = "Quaternion" /\ \E q \in QuatValues, t \in {R(0), Frac(1, 2), R(1)} :
    /\ Quat_slerp_exact(vec, q, t)
    /\ FnStep("slerp", <<q, t>>, Quat_slerp(vec, q, t), FALSE)

\* The interpolation parameters lerp is called with.
LerpParams == { R(0), Frac(1, 2), R(1), R(2) }

QuatLerp == vop = NoOp /\ vty = "Quaternion" /\ \E q \in QuatValues, t \in LerpParams :
    /\ HasExactSqrt(Vec_len2("Vector4f", Quat_xyzw(Quat_lerp_blend(vec, q, t))))
    /\ FnStep("lerp", <<q, t>>, Quat_lerp(vec, q, t), FALSE)

QuatMulVec3 == vop = NoOp /\ vty = "Quaternion" /\ \E v \in FnValues("Vector3f") :
    FnStep("mul_vec3", v, Quat_mul_vec3(vec, v), FALSE)

QuatFromYawPitchRoll == vop = NoOp /\ vty = "f32" /\ \E pitch \in Angles, roll \in Angles :
    FnStep("quat_from_yaw_pitch_roll", <<pitch, roll>>,
           Quat_from_yaw_pitch_roll(vec, pitch, roll), FALSE)

Mat4FromYawPitchRoll == vop = NoOp /\ vty = "f32" /\ \E pitch \in Angles, roll \in Angles :
    FnStep("mat4_from_yaw_pitch_roll", <<pitch, roll>>,
           Mat4_from_yaw_pitch_roll(vec, pitch, roll), FALSE)

Mat4Perspective ==
    vop = NoOp /\ vty = "f32" /\ \E aspect \in AspectRatios, near \in NearPlanes, far \in FarPlanes :
        FnStep("perspective", <<aspect, near, far>>,
               Mat4_perspective(vec, aspect, near, far),
               perspective_panics(vec, aspect, near, far))

\* The value has been observed: the first argument is held again.
FnReturn ==
    /\ vop # NoOp
    /\ vop' = NoOp
    /\ vec' = vprev
    /\ vrhs' = vprev
    /\ UNCHANGED <<vty, vprev, swzVars, matVars>>

NextFn ==
    \/ FnCross \/ FnCross2 \/ FnNormalized \/ FnEq \/ FnHash
    \/ FnSrtTransform3 \/ FnSrtTransform2
    \/ FnIntAdd \/ FnIntSub \/ FnIntMul \/ FnIntAddScalar \/ FnIntSubScalar
    \/ FnIntMulScalar \/ FnIntNeg \/ FnIntAbs
    \/ QuatMul \/ QuatNormalized \/ QuatSlerp \/ QuatLerp \/ QuatMulVec3
    \/ QuatFromYawPitchRoll \/ Mat4FromYawPitchRoll \/ Mat4Perspective
    \/ FnReturn

-----------------------------------------------------------------------------
(* build.rs: one run of write_swizzles::<C, M>                             *)

perm_count == swC ^ swM

InitSwizzle ==
    /\ swC \in ComponentCounts
    /\ swM \in OutputCounts
    /\ perm = [k \in 1..swM |-> 0]
    /\ swI = 0
    /\ swOut = <<>>

\* One iteration of `for i in 0..perm_count` in write_swizzles (default
\* features: the color_fields block is compiled out).
EmitAccessor ==
    /\ swI < perm_count
    /\ swOut' = Append(swOut, [name   |-> AccessorName(perm),
                               sel    |-> perm,
                               lanes  |-> write_field_list(perm),
                               result |-> swM,
                               trunc  |-> TRUE])
    /\ perm' = next_perm(perm, swC)
    /\ swI' = swI + 1
    /\ UNCHANGED <<swC, swM, vecVars, matVars>>

NextSwizzle == EmitAccessor

-----------------------------------------------------------------------------
(* The specifications: one per component, the other components at rest.    *)

VecIdle ==
    /\ vty = "Vector3f"
    /\ vec = Vec_new("Vector3f", <<R(0), R(0), R(0)>>)
    /\ vop = NoOp
    /\ vprev = vec
    /\ vrhs = vec

SwizzleIdle ==
    /\ swC = 2 /\ swM = 2
    /\ perm = <<0, 0>>
    /\ swI = 0
    /\ swOut = <<>>

MatIdle ==
    /\ mty = "Matrix2x3"
    /\ mat = Mat23_IDENTITY
    /\ mop = "none"
    /\ marg = mat
    /\ mres = mat
    /\ medited = FALSE

Init == InitVec /\ SwizzleIdle /\ MatIdle

Spec == Init /\ [][NextVec]_vars

InitSwz == InitSwizzle /\ VecIdle /\ MatIdle

SpecSwizzle == InitSwz /\ [][NextSwizzle]_vars

InitMatrices == InitMat /\ VecIdle /\ SwizzleIdle

SpecMat == InitMatrices /\ [][NextMat]_vars

InitFunctions == InitFn /\ SwizzleIdle /\ MatIdle

SpecFn == InitFunctions /\ [][NextFn]_vars

-----------------------------------------------------------------------------
(* Claims about the vector types                                           *)

\* C1: the 4th physical lane of every Vector3f / Vector3i the public
\* operations produce or mutate is zero.
C1_PaddingZero == vty \in PaddedTypes => vec[4] = ZeroOf(vty)

\* C2: Index and IndexMut abort for every index >= N, the padding lane
\* (index 3) of Vector3f / Vector3i included.
C2_IndexOutOfBounds ==
    (vop.name \in {"index", "index_mut"} /\ vop.idx >= Dim(vty)) => vop.abort

\* C3: for Vector3i a and b with the three components of b nonzero, a / b and
\* a % b do not abort and return the lane-wise quotient and remainder of
\* the three components, padding lane zero.
C3_Vector3iDivRem ==
    ( /\ vty = "Vector3i"
      /\ vop.name \in {"div", "rem"}
      /\ \A k \in 1..3 : vrhs[k] # 0 )
    => /\ ~vop.abort
       /\ vec = [k \in 1..4 |->
                    IF k = 4 THEN 0
                    ELSE IF vop.name = "div" THEN I32Div(vprev[k], vrhs[k])
                    ELSE I32Rem(vprev[k], vrhs[k])]

\* Every lane of the register is a finite number.
AllFinite(a) == \A k \in 1..Len(a) : IsFinite(a[k])

\* C18: for all 3-component vectors a and b with finite lanes,
\* len2(cross(a, b)) + dot(a, b)^2 = len2(a) * len2(b), dot and len2 being
\* those of Vector3f, which sum over all four lanes of the register.
C18_LagrangeIdentity ==
    (vty = "Vector3f" /\ vop.name = "cross" /\ AllFinite(vprev) /\ AllFinite(vrhs)) =>
        LET ty == "Vector3f"
            d  == Vec_dot(ty, vprev, vrhs)
        IN  RAdd(Vec_len2(ty, vec), RMul(d, d))
                = RMul(Vec_len2(ty, vprev), Vec_len2(ty, vrhs))

\* The same identity for registers whose padding lane is zero.
LagrangeIdentityClean ==
    (vty = "Vector3f" /\ vop.name = "cross" /\ vprev[4] = R(0) /\ vrhs[4] = R(0)) =>
        C18_LagrangeIdentity

-----------------------------------------------------------------------------
(* Claims about the matrix types                                           *)

RECURSIVE RefDet(_), RefDetSum(_, _)
\* The determinant of a square matrix (a sequence of columns), by Laplace
\* expansion along row 0.
RefDet(a) == IF Len(a) = 1 THEN a[1][1] ELSE RefDetSum(a, Len(a))

RefDetSum(a, j) ==
    IF j = 0 THEN R(0)
    ELSE LET minor == [jj \in 1..(Len(a) - 1) |-> Tail(a[IF jj < j THEN jj ELSE jj + 1])]
             term  == RMul(a[j][1], RefDet(minor))
         IN  RAdd(RefDetSum(a, j - 1), IF j % 2 = 1 THEN term ELSE RNeg(term))

\* The linear part of a Matrix2x3.
Linear2(m) == <<m[1], m[2]>>

\* C4: for every Matrix2x3 M with nonzero determinant, M * M.inverse() and
\* M.inverse() * M are Matrix2x3::IDENTITY.
C4_Mat23InverseRoundTrip ==
    ( /\ mty = "Matrix2x3"
      /\ mop = "inverse"
      /\ RefDet(Linear2(mat)) # R(0) )
    => /\ Mat23_mul(mat, mres) = Mat23_IDENTITY
       /\ Mat23_mul(mres, mat) = Mat23_IDENTITY

\* The unscaled blocks of Matrix4x4::inverse, signed and assembled.
Mat4_unscaled_inverse(m) ==
    LET blk == Mat4_inverse_blocks(m)
    IN  Mat4_inverse_assemble(f_mul(blk.x, ADJ_SIGN_MASK), f_mul(blk.y, ADJ_SIGN_MASK),
                              f_mul(blk.z, ADJ_SIGN_MASK), f_mul(blk.w, ADJ_SIGN_MASK))

Mat4_scaled_identity(x) == [j \in 1..4 |-> [i \in 1..4 |-> IF i = j THEN x ELSE R(0)]]

\* C5: for every Matrix4x4 M with nonzero determinant, projective ones
\* included, M * M.inverse() is Matrix4x4::IDENTITY; and for every M the
\* unscaled blocks inverse() assembles are the adjugate of M:
\* M * adj = det(M) * I.
C5_Mat4InverseRoundTrip ==
    (mty = "Matrix4x4" /\ mop = "inverse")
    => /\ RefDet(mat) # R(0) => /\ Mat4_mul(mat, mres) = Mat4_IDENTITY
                                /\ Mat4_mul(mres, mat) = Mat4_IDENTITY
       /\ Mat4_mul(mat, Mat4_unscaled_inverse(mat)) = Mat4_scaled_identity(RefDet(mat))

BottomRow(m) == [j \in 1..4 |-> Mat4_at(m, 3, j - 1)]

C5_Witness ==
    /\ mty = "Matrix4x4"
    /\ mop = "inverse"
    /\ BottomRow(mat) # <<R(0), R(0), R(0), R(1)>>
    /\ RefDet(mat) \notin {R(0), R(1)}
    /\ \A j \in 1..4 : \A i \in 1..4 : mat[j][i] # R(0)
    /\ Mat4_mul(mat, mres) = Mat4_IDENTITY

Dot3(a, b) == RAdd(RAdd(RMul(a[1], b[1]), RMul(a[2], b[2])), RMul(a[3], b[3]))

\* M = translation(t) * R * scaling(s) for a rotation R and a scale s with no
\* zero component: the bottom row is [0,0,0,1] and the columns of the 3x3
\* block are nonzero and orthogonal to one another.
IsTransform(m) ==
    /\ BottomRow(m) = <<R(0), R(0), R(0), R(1)>>
    /\ \A j \in 1..3 : Dot3(m[j], m[j]) # R(0)
    /\ \A j, k \in 1..3 : j # k => Dot3(m[j], m[k]) = R(0)

\* C6: for every such M, M * M.transform_inverse() is Matrix4x4::IDENTITY
\* and the translation column of the result is -(invBlock * t).
C6_TransformInverseRoundTrip ==
    (mty = "Matrix4x4" /\ mop = "transform_inverse" /\ IsTransform(mat))
    => /\ Mat4_mul(mat, mres) = Mat4_IDENTITY
       /\ \A r \in 0..2 :
              Mat4_at(mres, r, 3) =
                  RNeg(Dot3(<<Mat4_at(mres, r, 0), Mat4_at(mres, r, 1), Mat4_at(mres, r, 2)>>,
                            mat[4]))

\* C7: M.transposed()[(r, c)] is M[(c, r)] for all r, c in 0..4, and
\* transposing twice gives M back.
C7_TransposedIsNaive ==
    (mty = "Matrix4x4" /\ mop = "transposed")
    => /\ \A r \in 0..3 : \A c \in 0..3 : Mat4_at(mres, r, c) = Mat4_at(mat, c, r)
       /\ Mat4_transposed(mres) = mat

C7_Witness ==
    /\ mty = "Matrix4x4"
    /\ mop = "transposed"
    /\ Cardinality({mat[j][i] : j \in 1..4, i \in 1..4}) = 16
    /\ Mat4_at(mres, 0, 3) = Mat4_at(mat, 3, 0)
    /\ mres # mat

\* C8: Matrix4x4::determinant() is the determinant of the matrix.
C8_DeterminantIsDet ==
    (mty = "Matrix4x4" /\ mop = "determinant") => mres = RefDet(mat)

C8_Witness ==
    /\ mty = "Matrix4x4"
    /\ mop = "determinant"
    /\ \A j \in 1..4 : \A i \in 1..4 : mat[j][i] # R(0)
    /\ mres = RefDet(mat)
    /\ mres \notin {R(0), R(1), R(-1)}

C21_IsIdentityWithinEpsilon ==
    mop = "is_identity" =>
        mres = (\A r \in 0..(Rows(mty) - 1), c \in 0..(Cols(mty) - 1) :
                   LET d == RAbs(RSub(Mat_at(mty, mat, r, c),
                                      Mat_at(mty, Mat_IDENTITY(mty), r, c)))
                   IN  RLt(d, marg) \/ REq(d, marg))

\* C22 as stated: the alignment of every public type is its byte size
\* rounded up to a power of two: 8 for Vector2f / Vector2i, 16 for the
\* 16-byte vectors and Quaternion, 32 for Matrix2x3 and 64 for Matrix4x4.
C22_AlignmentIsSizePow2 ==
    \A ty \in PublicTypes : \A sa \in SimdAligns(RegisterLanes(ty)) :
        /\ AlignOf(ty, sa) = next_power_of_two(RegisterCount(ty) * RegisterLanes(ty) * 4)
        /\ (ty = mty => AlignOf(ty, sa) = IF ty = "Matrix2x3" THEN 32 ELSE 64)

\* C22 amended: the alignment of every public type is the byte size of the
\* SIMD register it is made of, 8 for Vector2f / Vector2i / Matrix2x3 and 16
\* for the others, and its size is that of its registers with no padding
\* bytes: 8, 16, 24 (Matrix2x3) and 64 (Matrix4x4); the matrix held is that
\* many bytes of f32.
C22_AlignmentIsRegisterSize ==
    /\ \A ty \in PublicTypes : \A sa \in SimdAligns(RegisterLanes(ty)) :
           /\ AlignOf(ty, sa) = RegisterLanes(ty) * 4
           /\ SizeOf(ty, sa) = RegisterCount(ty) * RegisterLanes(ty) * 4
    /\ \A sa \in SimdAligns(RegisterLanes(mty)) :
           /\ Len(mat) * Len(mat[1]) * 4 = SizeOf(mty, sa)
           /\ SizeOf(mty, sa) = IF mty = "Matrix2x3" THEN 24 ELSE 64
           /\ AlignOf(mty, sa) = IF mty = "Matrix2x3" THEN 8 ELSE 16

\* A Matrix2x3 is held, edited in one element: 24 bytes aligned to 8.
C22_Witness ==
    /\ mty = "Matrix2x3"
    /\ medited
    /\ \A sa \in SimdAligns(2) : AlignOf(mty, sa) = 8 /\ SizeOf(mty, sa) = 24

\* The summed squared length transform_inverse tests for lane k of its
\* scale: that of the first three elements of column k for k in 1..3, and
\* three times the square of element (3, 2) for the fourth lane.
RefSizeSqr(m, k) ==
    IF k <= 3 THEN Dot3(m[k], m[k])
    ELSE RAdd(RAdd(RMul(m[3][4], m[3][4]), RMul(m[3][4], m[3][4])), RMul(m[3][4], m[3][4]))

\* The element the first three columns of the result hold in lane k of
\* column j before scaling: element j of column k, and element (3, 2) in the
\* fourth lane.
RefUnscaled(m, j, k) == IF k <= 3 THEN m[k][j] ELSE m[3][4]

MatAllFinite(m) == \A j \in 1..Len(m) : AllFinite(m[j])

\* C26: in transform_inverse a lane whose summed squared length is below
\* f32::EPSILON is scaled by exactly 1, any other lane by 1 / len2; so every
\* element of the result is finite when every element of the input is; and
\* when element (3, 2) of the input is 0 the bottom row of the result is
\* [0, 0, 0, 1].
C26_DegenerateScaleGuard ==
    (mty = "Matrix4x4" /\ mop = "transform_inverse") =>
        /\ \A j \in 1..3 : \A k \in 1..4 :
               mres[j][k] = IF RLt(RefSizeSqr(mat, k), F32_EPSILON)
                            THEN RefUnscaled(mat, j, k)
                            ELSE RMul(RefUnscaled(mat, j, k), RDiv(R(1), RefSizeSqr(mat, k)))
        /\ MatAllFinite(mat) => MatAllFinite(mres)
        /\ (MatAllFinite(mat) /\ Mat4_at(mat, 3, 2) = R(0))
               => BottomRow(mres) = <<R(0), R(0), R(0), R(1)>>

\* The inverse of a transform with a column of length 0 in its 3x3 block, a
\* column of squared length between 0 and f32::EPSILON, a column scaled by
\* 1 / len2 = 1, and a translation.
C26_Witness ==
    /\ mty = "Matrix4x4" /\ mop = "transform_inverse"
    /\ MatAllFinite(mat)
    /\ \E k \in 1..3 : RefSizeSqr(mat, k) = R(0)
    /\ \E k \in 1..3 : /\ RLt(R(0), RefSizeSqr(mat, k))
                        /\ RLt(RefSizeSqr(mat, k), F32_EPSILON)
                        /\ mres[1][k] = mat[k][1] /\ mat[k][1] # R(0)
    /\ \E k \in 1..3 : ~RLt(RefSizeSqr(mat, k), F32_EPSILON)
    /\ mat[4] # <<R(0), R(0), R(0), R(1)>>
    /\ Mat4_at(mat, 3, 2) = R(0)
    /\ MatAllFinite(mres)
    /\ BottomRow(mres) = <<R(0), R(0), R(0), R(1)>>

\* 2x2 matrices as <<row 0, row 1>>: the block of m with upper left element
\* (r, c), the determinant, the adjugate, the product and the trace.
Block2(m, r, c) == << <<Mat4_at(m, r, c), Mat4_at(m, r, c + 1)>>,
                      <<Mat4_at(m, r + 1, c), Mat4_at(m, r + 1, c + 1)>> >>

Det2(a) == RSub(RMul(a[1][1], a[2][2]), RMul(a[1][2], a[2][1]))

Adj2(a) == << <<a[2][2], RNeg(a[1][2])>>, <<RNeg(a[2][1]), a[1][1]>> >>

Mul2(a, b) ==
    [i \in 1..2 |-> [j \in 1..2 |-> RAdd(RMul(a[i][1], b[1][j]), RMul(a[i][2], b[2][j]))]]

Tr2(a) == RAdd(a[1][1], a[2][2])

\* |A| |D| + |B| |C| - tr((A# B)(D# C)) for M = (A B; C D).
RefBlockDet(m) ==
    LET A == Block2(m, 0, 0)
        B == Block2(m, 0, 2)
        C == Block2(m, 2, 0)
        D == Block2(m, 2, 2)
    IN  RSub(RAdd(RMul(Det2(A), Det2(D)), RMul(Det2(B), Det2(C))),
             Tr2(Mul2(Mul2(Adj2(A), B), Mul2(Adj2(D), C))))

\* C27: the determinant Matrix4x4::inverse() assembles from the 2x2 blocks,
\* det(A) det(D) + det(B) det(C) - tr((A# B)(D# C)), is what
\* Matrix4x4::determinant() returns for the same matrix, so inverse() divides
\* by zero exactly when determinant() is zero.
C27_BlockDeterminant ==
    (mty = "Matrix4x4" /\ mop \in {"inverse", "determinant"}) =>
        LET det_m == Mat4_inverse_blocks(mat).det_m
        IN  /\ \A k \in 1..4 : det_m[k] = RefBlockDet(mat)
            /\ \A k \in 1..4 : det_m[k] = Mat4_determinant(mat)
            /\ mop = "determinant" => mres = det_m[1]
            /\ mop = "inverse" =>
                   /\ (Mat4_determinant(mat) = R(0)) <=> (\E k \in 1..4 : det_m[k] = R(0))
                   /\ (Mat4_determinant(mat) = R(0)) <=> ~MatAllFinite(mres)

\* The inverse of a matrix with no zero element in its upper right and lower
\* left blocks, a non-zero trace term and a determinant other than 0 and 1.
C27_Witness ==
    /\ mty = "Matrix4x4" /\ mop = "inverse"
    /\ \A r \in 0..1 : \A c \in 2..3 : Mat4_at(mat, r, c) # R(0) /\ Mat4_at(mat, c, r) # R(0)
    /\ Tr2(Mul2(Mul2(Adj2(Block2(mat, 0, 0)), Block2(mat, 0, 2)),
                Mul2(Adj2(Block2(mat, 2, 2)), Block2(mat, 2, 0)))) # R(0)
    /\ Mat4_determinant(mat) \notin {R(0), R(1)}
    /\ Mat4_inverse_blocks(mat).det_m[1] = Mat4_determinant(mat)
    /\ MatAllFinite(mres)

\* The inverse of a matrix whose determinant is zero: the division is by
\* zero and no element of the result is finite.
C27_WitnessSingular ==
    /\ mty = "Matrix4x4" /\ mop = "inverse"
    /\ Mat4_determinant(mat) = R(0)
    /\ Mat4_inverse_blocks(mat).det_m = <<R(0), R(0), R(0), R(0)>>
    /\ \A j \in 1..4 : \A i \in 1..4 : ~IsFinite(mres[j][i])

\* C28: on every matrix M = T * R * S with a scale with no zero component and
\* bottom row [0, 0, 0, 1], transform_inverse() and inverse() return the same
\* matrix.
C28_TransformInverseIsInverse ==
    (mty = "Matrix4x4" /\ mop = "transform_inverse" /\ IsTransform(mat))
    => mres = Mat4_inverse(mat)

\* The same when, in addition, no column of the 3x3 block has a squared
\* length below f32::EPSILON.
TransformInverseAboveEpsilon ==
    ( /\ mty = "Matrix4x4" /\ mop = "transform_inverse" /\ IsTransform(mat)
      /\ \A k \in 1..3 : ~RLt(RefSizeSqr(mat, k), F32_EPSILON) )
    => mres = Mat4_inverse(mat)

-----------------------------------------------------------------------------
(* Claims about the kernels as functions                                   *)

\* The algebraic cross product of the first three components.
RefCross3(a, b) ==
    << RSub(RMul(a[2], b[3]), RMul(a[3], b[2])),
       RSub(RMul(a[3], b[1]), RMul(a[1], b[3])),
       RSub(RMul(a[1], b[2]), RMul(a[2], b[1])) >>

\* The Hamilton product of p and q, component by component:
\* xyz = q.xyz * p.w + p.xyz * q.w + p.xyz x q.xyz, w = p.w * q.w - p.xyz . q.xyz
RefHamilton(p, q) ==
    LET c == RefCross3(p, q)
    IN  << RAdd(RAdd(RMul(q[1], p[4]), RMul(p[1], q[4])), c[1]),
           RAdd(RAdd(RMul(q[2], p[4]), RMul(p[2], q[4])), c[2]),
           RAdd(RAdd(RMul(q[3], p[4]), RMul(p[3], q[4])), c[3]),
           RSub(RMul(p[4], q[4]), Dot3(p, q)) >>

QuatI == <<R(1), R(0), R(0), R(0)>>

QuatJ == <<R(0), R(1), R(0), R(0)>>

QuatK == <<R(0), R(0), R(1), R(0)>>

\* C12: p * q is the Hamilton product of p and q; Quaternion::IDENTITY is
\* neutral on both sides; i * j = k and j * i = -k.
C12_HamiltonProduct ==
    (vty = "Quaternion" /\ vop.name = "mul") =>
        /\ vec = RefHamilton(vprev, vrhs)
        /\ (vrhs = Quat_IDENTITY => vec = vprev)
        /\ (vprev = Quat_IDENTITY => vec = vrhs)
        /\ (vprev = QuatI /\ vrhs = QuatJ => vec = QuatK)
        /\ (vprev = QuatJ /\ vrhs = QuatI => vec = <<R(0), R(0), R(-1), R(0)>>)

C12_Witness ==
    /\ vty = "Quaternion" /\ vop.name = "mul"
    /\ vprev = QuatJ /\ vrhs = QuatI
    /\ vec = <<R(0), R(0), R(-1), R(0)>>

\* The rotations about the y, x and z axes by an angle, from the sine and
\* cosine of its half.
RefAxisQuat(axis, angle) ==
    [k \in 1..4 |-> IF k = axis THEN angle.half[1]
                    ELSE IF k = 4 THEN angle.half[2] ELSE R(0)]

\* Ry(yaw) . Rx(pitch) . Rz(roll)
RefYawPitchRoll(yaw, pitch, roll) ==
    RefHamilton(RefHamilton(RefAxisQuat(2, yaw), RefAxisQuat(1, pitch)),
                RefAxisQuat(3, roll))

\* C13: Quaternion::from_yaw_pitch_roll(yaw, pitch, roll) is
\* from_angle_y(yaw) * from_angle_x(pitch) * from_angle_z(roll), in that
\* order, and Matrix4x4::from_yaw_pitch_roll is Matrix4x4::rotation of that
\* quaternion.
C13_YawPitchRollOrder ==
    /\ (vty = "f32" /\ vop.name = "quat_from_yaw_pitch_roll") =>
           vec = RefYawPitchRoll(vprev, vrhs[1], vrhs[2])
    /\ (vty = "f32" /\ vop.name = "mat4_from_yaw_pitch_roll") =>
           vec = Mat4_rotation(RefYawPitchRoll(vprev, vrhs[1], vrhs[2]))

\* Yaw pi, pitch pi, roll 0: j * i = -k, where the order x, y, z gives k.
C13_Witness ==
    /\ vty = "f32" /\ vop.name = "quat_from_yaw_pitch_roll"
    /\ vprev = Angle(1, R(1), R(0))
    /\ vrhs = <<Angle(1, R(1), R(0)), Angle(0, R(0), R(1))>>
    /\ vec = <<R(0), R(0), R(-1), R(0)>>
    /\ RefHamilton(RefHamilton(RefAxisQuat(1, vrhs[1]), RefAxisQuat(2, vprev)),
                   RefAxisQuat(3, vrhs[2])) # vec

\* The dot product of two quaternions over their four components.
RefDot4(a, b) == RAdd(Dot3(a, b), RMul(a[4], b[4]))

IsUnitQuat(q) == RefDot4(q, q) = R(1)

\* A slerp of two unit quaternions has returned with parameter t.
SlerpOfUnits(t) ==
    /\ vty = "Quaternion" /\ vop.name = "slerp"
    /\ vrhs[2] = t
    /\ IsUnitQuat(vprev) /\ IsUnitQuat(vrhs[1])

\* C14 as stated: for unit quaternions a and b, a.slerp(b, 0) is a and
\* a.slerp(b, 1) is b, component by component, also when dot(a, b) < 0.
C14_SlerpBoundary ==
    /\ SlerpOfUnits(R(0)) => vec = vprev
    /\ SlerpOfUnits(R(1)) => vec = vrhs[1]

\* C14 amended: for unit quaternions a and b, a.slerp(b, 0) is a, and
\* a.slerp(b, 1) is b when dot(a, b) >= 0 and -b when dot(a, b) < 0.
C14_SlerpBoundaryShortArc ==
    /\ SlerpOfUnits(R(0)) => vec = vprev
    /\ SlerpOfUnits(R(1)) =>
           vec = IF RLt(RefDot4(vprev, vrhs[1]), R(0))
                 THEN [k \in 1..4 |-> RNeg(vrhs[1][k])]
                 ELSE vrhs[1]

\* IDENTITY.slerp((0, 3/5, 0, -4/5), 1): the dot product is -4/5, the
\* trigonometric branch is taken, and the result is (0, -3/5, 0, 4/5).
C14_Witness ==
    /\ SlerpOfUnits(R(1))
    /\ vprev = Quat_IDENTITY
    /\ vrhs[1] = <<R(0), Frac(3, 5), R(0), Frac(-4, 5)>>
    /\ vec = <<R(0), Frac(-3, 5), R(0), Frac(4, 5)>>

RECURSIVE RefSumSquares(_, _)
\* The sum of the squares of the first n lanes of a register.
RefSumSquares(a, n) ==
    IF n = 0 THEN R(0) ELSE RAdd(RefSumSquares(a, n - 1), RMul(a[n], a[n]))

\* The length len() reports: the square root of the sum of the squares of
\* all lanes of the register.
RefLen(a) == RSqrt(RefSumSquares(a, Len(a)))

\* The number of components of the value normalized() was called on.
NormalizedDim == IF vty = "Quaternion" THEN 4 ELSE Dim(vty)

\* C15: normalized() of a Vector2f, Vector3f, Vector4f or Quaternion of
\* length exactly zero returns the input unchanged, no division having taken
\* place; for a nonzero length every component of the result is the
\* component of the input divided by the length.
C15_NormalizedZeroLength ==
    ((vty \in FloatTypes \cup {"Quaternion"}) /\ vop.name = "normalized") =>
        IF RefLen(vprev) = R(0)
        THEN vec = vprev /\ \A k \in 1..Len(vec) : ~IsNaN(vec[k])
        ELSE \A k \in 1..NormalizedDim : vec[k] = RDiv(vprev[k], RefLen(vprev))

C15_Witness ==
    /\ vty = "Vector3f" /\ vop.name = "normalized"
    /\ vprev = <<R(0), R(0), R(0), R(0)>>
    /\ vec = vprev

\* A call of Matrix4x4::perspective has returned or panicked.
PerspectiveCalled == vty = "f32" /\ vop.name = "perspective"

\* C16: Matrix4x4::perspective panics whenever fov_y <= 0, aspect_ratio <= 0,
\* near_plane <= 1 or far_plane <= near_plane, and returns a matrix without
\* panicking when fov_y > 0, aspect_ratio > 0, near_plane > 1 and
\* far_plane > near_plane.
C16_PerspectivePreconditions ==
    PerspectiveCalled =>
        LET fov_y        == vprev
            aspect_ratio == vrhs[1]
            near_plane   == vrhs[2]
            far_plane    == vrhs[3]
            Le(a, b)     == RLt(a, b) \/ REq(a, b)
        IN  /\ ( \/ fov_y.sign <= 0
                 \/ Le(aspect_ratio, R(0))
                 \/ Le(near_plane, R(1))
                 \/ Le(far_plane, near_plane) ) => (vop.abort /\ vec = vprev)
            /\ ( /\ fov_y.sign > 0
                 /\ RLt(R(0), aspect_ratio)
                 /\ RLt(R(1), near_plane)
                 /\ RLt(near_plane, far_plane) ) =>
                   /\ ~vop.abort
                   /\ Len(vec) = 4
                   /\ \A j \in 1..4 : Len(vec[j]) = 4

\* perspective(2 atan(3/4), 2, 1, 4): only the near plane, equal to 1, breaks
\* a precondition, and the call panics.
C16_Witness ==
    /\ PerspectiveCalled
    /\ vprev = Angle(1, Frac(3, 5), Frac(4, 5))
    /\ vrhs = <<R(2), R(1), R(4)>>
    /\ vop.abort

RECURSIVE RefSumProducts(_, _, _, _, _)
\* The sum over k <= n of A[r, k] * B[k, c], for matrices given as sequences
\* of columns.
RefSumProducts(a, b, r, c, n) ==
    IF n = 0 THEN R(0)
    ELSE RAdd(RefSumProducts(a, b, r, c, n - 1), RMul(a[n][r], b[c][n]))

RECURSIVE RefLinearScaled(_, _, _, _, _)
\* The product of two matrices given as sequences of columns, entry by
\* entry: (A B)[r, c] is the sum over k of A[r, k] * B[k, c].
RefMatMul(a, b) ==
    [c \in 1..Len(b) |->
        [r \in 1..Len(a[1]) |-> RefSumProducts(a, b, r, c, Len(a))]]

\* R(s o v): the 3x3 (or 2x2) block of the matrix m applied to the
\* component-wise product of s and v, component r.
RefLinearScaled(m, s, v, r, n) ==
    IF n = 0 THEN R(0)
    ELSE RAdd(RefLinearScaled(m, s, v, r, n - 1), RMul(m[n][r], RMul(s[n], v[n])))

\* A Matrix2x3 as the 3x3 matrix with the last row [0, 0, 1].
Homogeneous23(m) ==
    << <<m[1][1], m[1][2], R(0)>>, <<m[2][1], m[2][2], R(0)>>, <<m[3][1], m[3][2], R(1)>> >>

\* C17: from_scale_rotation_translation(s, r, t) is
\* translation(t) * rotation(r) * scaling(s), for Matrix2x3 and Matrix4x4,
\* so that its product with a vector v is t + R(s o v).
C17_ScaleRotationTranslation ==
    /\ (vty = "Vector3f" /\ vop.name = "srt_transform") =>
           LET s == vrhs[1]
               q == vrhs[2]
               t == vrhs[3]
           IN  /\ Mat4_from_scale_rotation_translation(s, q, t)
                    = RefMatMul(RefMatMul(Mat4_translation(t), Mat4_rotation(q)),
                                Mat4_scaling(s))
               /\ \A r \in 1..3 :
                      vec[r] = RAdd(t[r], RefLinearScaled(Mat4_rotation(q), s, vprev, r, 3))
    /\ (vty = "Vector2f" /\ vop.name = "srt_transform") =>
           LET s == vrhs[1]
               a == vrhs[2]
               t == vrhs[3]
           IN  /\ Homogeneous23(Mat23_from_scale_rotation_translation(s, a, t))
                    = RefMatMul(RefMatMul(Homogeneous23(Mat23_translation(t)),
                                          Homogeneous23(Mat23_rotation(a))),
                                Homogeneous23(Mat23_scaling(s)))
               /\ \A r \in 1..2 :
                      vec[r] = RAdd(t[r], RefLinearScaled(Mat23_rotation(a), s, vprev, r, 2))

\* A scale, a rotation and a translation that do not commute, applied to
\* (1, 1, 1): the factors in the opposite order give another vector.
C17_Witness ==
    /\ vty = "Vector3f" /\ vop.name = "srt_transform"
    /\ vprev = <<R(1), R(1), R(1), R(0)>>
    /\ vrhs = << V3(<<R(2), R(-1), Frac(1, 2)>>),
                 <<R(0), R(0), Frac(3, 5), Frac(4, 5)>>,
                 V3(<<R(1), R(-2), R(3)>>) >>
    /\ vec # Mat4_mul_vec3(Mat4_from_srt_reversed(vrhs[1], vrhs[2], vrhs[3]), vprev)

\* C19: Vector3f::cross is the algebraic cross product on the first three
\* components, so cross(UNIT_X, UNIT_Y) = UNIT_Z and cross(a, b) = -cross(b, a);
\* Vector2f::cross is the scalar a.x * b.y - a.y * b.x.
C19_CrossProduct ==
    /\ (vty = "Vector3f" /\ vop.name = "cross") =>
           /\ \A k \in 1..3 : vec[k] = RefCross3(vprev, vrhs)[k]
           /\ \A k \in 1..3 : Vector3f_cross(vrhs, vprev)[k] = RNeg(vec[k])
           /\ ( /\ vprev = Vec_new("Vector3f", <<R(1), R(0), R(0)>>)
                /\ vrhs = Vec_new("Vector3f", <<R(0), R(1), R(0)>>) ) =>
                  vec = Vec_new("Vector3f", <<R(0), R(0), R(1)>>)
    /\ (vty = "Vector2f" /\ vop.name = "cross") =>
           vec = RSub(RMul(vprev[1], vrhs[2]), RMul(vprev[2], vrhs[1]))

C19_Witness ==
    /\ vty = "Vector3f" /\ vop.name = "cross"
    /\ vprev = <<R(1), R(0), R(0), R(0)>>
    /\ vrhs = <<R(0), R(1), R(0), R(0)>>
    /\ vec = <<R(0), R(0), R(1), R(0)>>

\* Whether the first three lanes of two registers are equal.
FirstThreeEqual(ty, a, b) ==
    \A k \in 1..3 : IF IsFloat(ty) THEN REq(a[k], b[k]) ELSE a[k] = b[k]

\* C20: == on Vector3f and Vector3i and the hash of Vector3i read the first
\* three lanes only: registers whose first three lanes are equal compare
\* equal and, for Vector3i, hand the same data to the hasher, whatever the
\* fourth lane holds; Vector3i values that compare equal hash alike.
C20_EqHashFirstThreeLanes ==
    /\ (vty \in PaddedTypes /\ vop.name = "eq") =>
           /\ vec = FirstThreeEqual(vty, vprev, vrhs)
           /\ (vty = "Vector3i" /\ vec) => Vector3i_hash(vprev) = Vector3i_hash(vrhs)
    /\ (vty = "Vector3i" /\ vop.name = "hash") =>
           /\ vec = <<vprev[1], vprev[2], vprev[3]>>
           /\ \A x \in PaddingValues(vty) : Vector3i_hash([vprev EXCEPT ![4] = x]) = vec

\* (1, -1, 0 | 0) == (1, -1, 0 | -1) on Vector3i: the fourth lanes differ and
\* the values compare equal.
C20_Witness ==
    /\ vty = "Vector3i" /\ vop.name = "eq"
    /\ vprev = <<1, -1, 0, 0>>
    /\ vrhs = <<1, -1, 0, -1>>
    /\ vec = TRUE

\* C24: for every unit quaternion q and every Vector3f v, q * v is
\* Matrix4x4::rotation(q) * v, and both are the xyz of
\* q * (v, 0) * q.conjugate().
C24_RotationConsistency ==
    (vty = "Quaternion" /\ vop.name = "mul_vec3" /\ IsUnitQuat(vprev)) =>
        LET byMatrix   == Mat4_mul_vec3(Mat4_rotation(vprev), vrhs)
            pure       == Quat_new(vrhs[1], vrhs[2], vrhs[3], R(0))
            bySandwich == Quat_xyz(Quat_mul(Quat_mul(vprev, pure), Quat_conjugate(vprev)))
        IN  /\ FirstThreeEqual("Vector3f", vec, byMatrix)
            /\ FirstThreeEqual("Vector3f", vec, bySandwich)
            /\ FirstThreeEqual("Vector3f", byMatrix, bySandwich)

\* The rotation by 120 degrees about (1, 1, 1) has taken (1, -1, 0) to
\* (0, 1, -1).
C24_Witness ==
    /\ vty = "Quaternion" /\ vop.name = "mul_vec3"
    /\ vprev = <<Frac(1, 2), Frac(1, 2), Frac(1, 2), Frac(1, 2)>>
    /\ vrhs = <<R(1), R(-1), R(0), R(0)>>
    /\ vec = <<R(0), R(1), R(-1), R(0)>>
    /\ Mat4_mul_vec3(Mat4_rotation(vprev), vrhs) = vec

\* self + (rhs' - self) * t with rhs' = -rhs when the dot product of the two
\* quaternions is negative and rhs' = rhs otherwise.
RefLerpBlend(a, b, t) ==
    LET neg == RLt(RefDot4(a, b), R(0))
    IN  [k \in 1..4 |->
            LET r == IF neg THEN RNeg(b[k]) ELSE b[k]
            IN  RAdd(a[k], RMul(RSub(r, a[k]), t))]

\* C25: lerp returns normalized(self + (rhs' - self) * t), rhs' being -rhs
\* when the dot product is negative and rhs otherwise; the value returned
\* when the dot product is negative is normalised as well.
C25_LerpNormalizedBothBranches ==
    (vty = "Quaternion" /\ vop.name = "lerp") =>
        LET blend == RefLerpBlend(vprev, vrhs[1], vrhs[2])
            len   == RSqrt(RefDot4(blend, blend))
        IN  /\ vec = Quat_normalized(blend)
            /\ len # R(0) => /\ vec = [k \in 1..4 |-> RDiv(blend[k], len)]
                             /\ IsUnitQuat(vec)

\* Halfway from the identity to a unit quaternion with a negative dot
\* product: the blend, of length 4/5, is returned divided by its length.
C25_Witness ==
    /\ vty = "Quaternion" /\ vop.name = "lerp"
    /\ RLt(RefDot4(vprev, vrhs[1]), R(0))
    /\ vprev = Quat_IDENTITY
    /\ vrhs = <<Quat_new(R(0), R(0), Frac(-24, 25), Frac(-7, 25)), Frac(1, 2)>>
    /\ RefLerpBlend(vprev, vrhs[1], vrhs[2]) = <<R(0), R(0), Frac(12, 25), Frac(16, 25)>>
    /\ vec = <<R(0), R(0), Frac(3, 5), Frac(4, 5)>>

-----------------------------------------------------------------------------
(* Claims about the integer vector types                                   *)

\* The four bytes of the two's complement representation of a, least
\* significant first.
Bytes(a) == [i \in 1..4 |-> (a \div (256 ^ (i - 1))) % 256]

\* The i32 with the given bytes.
FromBytes(b) ==
    (IF b[4] >= 128 THEN b[4] - 256 ELSE b[4]) * 16777216 + b[3] * 65536 + b[2] * 256 + b[1]

\* x + y + c modulo 2^32 on bytes, c the carry into the lowest byte.
RefAddBytes(x, y, c) ==
    LET s1 == x[1] + y[1] + c
        s2 == x[2] + y[2] + (s1 \div 256)
        s3 == x[3] + y[3] + (s2 \div 256)
        s4 == x[4] + y[4] + (s3 \div 256)
    IN  <<s1 % 256, s2 % 256, s3 % 256, s4 % 256>>

RefComplement(x) == [i \in 1..4 |-> 255 - x[i]]

RefWrapAdd(a, b) == FromBytes(RefAddBytes(Bytes(a), Bytes(b), 0))

\* a - b = a + ~b + 1 modulo 2^32.
RefWrapSub(a, b) == FromBytes(RefAddBytes(Bytes(a), RefComplement(Bytes(b)), 1))

RefWrapNeg(a) == RefWrapSub(0, a)

RefWrapAbs(a) == IF a < 0 THEN RefWrapNeg(a) ELSE a

\* a * b modulo 2^32, by columns of byte products.
RefWrapMul(a, b) ==
    LET x == Bytes(a)
        y == Bytes(b)
        p1 == x[1] * y[1]
        p2 == x[1] * y[2] + x[2] * y[1] + (p1 \div 256)
        p3 == x[1] * y[3] + x[2] * y[2] + x[3] * y[1] + (p2 \div 256)
        p4 == x[1] * y[4] + x[2] * y[3] + x[3] * y[2] + x[4] * y[1] + (p3 \div 256)
    IN  FromBytes(<<p1 % 256, p2 % 256, p3 % 256, p4 % 256>>)

\* The result modulo 2^32 of the operator named `name` on two lanes.
RefWrap(name, a, b) ==
    CASE name \in {"add", "add_scalar"} -> RefWrapAdd(a, b)
      [] name \in {"sub", "sub_scalar"} -> RefWrapSub(a, b)
      [] name \in {"mul", "mul_scalar"} -> RefWrapMul(a, b)
      [] name = "neg"                   -> RefWrapNeg(a)
      [] name = "abs"                   -> RefWrapAbs(a)

IntOpNames == {"add", "sub", "mul", "add_scalar", "sub_scalar", "mul_scalar", "neg", "abs"}

\* An integer operator has been applied to registers with a zero padding
\* lane (a scalar operand is broadcast to every lane).
IntOpOnClean ==
    /\ vprev[Lanes(vty)] = 0 \/ vty # "Vector3i"
    /\ vrhs[Lanes(vty)] = 0 \/ vty # "Vector3i" \/ vop.name \in {"add_scalar", "sub_scalar", "mul_scalar"}

\* C29: on Vector2i, Vector3i and Vector4i, add, sub and mul by a vector or
\* by a broadcast scalar, neg and abs never abort and return in each lane
\* the result modulo 2^32 (i32::MAX + 1 is i32::MIN, abs and neg of i32::MIN
\* are i32::MIN); the padding lane of a Vector3i stays zero.
C29_IntegerWrapping ==
    (vty \in IntTypes /\ vop.name \in IntOpNames) =>
        /\ ~vop.abort
        /\ \A k \in 1..Dim(vty) : vec[k] = RefWrap(vop.name, vprev[k], vrhs[k])
        /\ (vty = "Vector3i" /\ IntOpOnClean) => vec[4] = 0
        /\ \A k \in 1..Dim(vty) :
               /\ (vop.name \in {"add", "add_scalar"} /\ vprev[k] = I32_MAX /\ vrhs[k] = 1)
                      => vec[k] = I32_MIN
               /\ (vop.name \in {"neg", "abs"} /\ vprev[k] = I32_MIN) => vec[k] = I32_MIN

\* i32::MAX + 1 in the first lane of a Vector3i, i32::MIN - 1 in the second.
C29_Witness ==
    /\ vty = "Vector3i" /\ vop.name = "add_scalar"
    /\ vprev = <<I32_MAX, I32_MIN, 1, 0>>
    /\ vrhs = <<1, 1, 1, 1>>
    /\ vec = <<I32_MIN, I32_MIN + 1, 2, 0>>

\* 46341 * 46341 = 2^31 + 4633 has wrapped in a Vector4i, and so has
\* i32::MIN * i32::MIN to 0.
C29_WitnessMul ==
    /\ vty = "Vector4i" /\ vop.name = "mul"
    /\ vprev = <<I32_MIN, I32_MAX, 65536, 46341>>
    /\ vrhs = vprev
    /\ vec = <<0, 1, 0, I32_MIN + 4633>>

\* abs of i32::MIN is i32::MIN.
C29_WitnessAbs ==
    /\ vty = "Vector2i" /\ vop.name = "abs"
    /\ vprev = <<I32_MAX, I32_MIN>>
    /\ vec = <<I32_MAX, I32_MIN>>

-----------------------------------------------------------------------------
(* Claims about the swizzle generator                                      *)

SwizzleDone == swI = perm_count

\* C9: when write_swizzles::<C, M> returns it has emitted exactly C^M
\* accessors, their names are pairwise distinct, and the emitted selections
\* are exactly the M-tuples over [0, C), repeated indices included.
C9_SwizzleComplete ==
    SwizzleDone =>
        /\ Len(swOut) = swC ^ swM
        /\ \A i, j \in 1..Len(swOut) : i # j => swOut[i].name # swOut[j].name
        /\ {swOut[k].sel : k \in 1..Len(swOut)} = [1..swM -> 0..(swC - 1)]

C9_Witness ==
    /\ SwizzleDone
    /\ swC = 3 /\ swM = 4
    /\ Len(swOut) = 81
    /\ \E k \in 1..Len(swOut) : swOut[k].name = <<"x", "x", "x", "x">>

RECURSIVE DigitsValue(_, _, _)
\* The number a digit sequence denotes in base `base`, most significant first.
DigitsValue(p, k, base) ==
    IF k = 0 THEN 0 ELSE DigitsValue(p, k - 1, base) * base + p[k]

\* C10: the counter is a mixed-radix counter, last position least
\* significant: the i-th emitted selection is i in base C, every digit stays
\* below C, and after C^M calls the counter is all zeros again.
C10_SwizzleOrder ==
    /\ \A k \in 1..Len(swOut) : DigitsValue(swOut[k].sel, swM, swC) = k - 1
    /\ \A k \in 1..swM : perm[k] >= 0 /\ perm[k] < swC
    /\ DigitsValue(perm, swM, swC) = swI % (swC ^ swM)
    /\ (SwizzleDone => perm = [k \in 1..swM |-> 0])

C10_Witness ==
    /\ SwizzleDone
    /\ swC = 4 /\ swM = 3
    /\ swOut[17].sel = <<1, 0, 0>>
    /\ perm = <<0, 0, 0>>

\* The index a field letter denotes: x, y, z, w are 0, 1, 2, 3.
LetterIndex(c) == CHOOSE i \in 0..3 : FIELD_NAMES[i + 1] = c

\* Source registers of a C-component vector with pairwise distinct
\* components; a 3-component register carries its padding lane, zero or not.
SwizzleSources(c) ==
    IF c = 3
    THEN {<<10, 20, 30, 0>>, <<-7, 5, 11, 99>>}
    ELSE {[k \in 1..c |-> 10 * k], [k \in 1..c |-> 3 - 5 * k]}

\* What the emitted accessor body computes on a source register:
\* result_ty::from_simd_truncate(simd_swizzle!(self.0, [lanes])).
AccessorApply(rec, src) ==
    LET shuffled == simd_swizzle(src, rec.lanes)
        ty == TypeOfWidth("Vector2i", rec.result)
    IN  IF rec.trunc THEN from_simd_truncate(ty, shuffled) ELSE shuffled

\* C11: every emitted accessor is named by the field letters of its
\* selection in output order, and on every source vector its k-th result
\* component is the source component the k-th letter of its name denotes,
\* repeated letters included.
C11_AccessorSemantics ==
    \A n \in 1..Len(swOut) :
        LET rec == swOut[n]
        IN  /\ Len(rec.name) = swM
            /\ \A k \in 1..swM : rec.name[k] = FIELD_NAMES[rec.sel[k] + 1]
            /\ \A src \in SwizzleSources(swC) :
                   \A k \in 1..swM :
                       AccessorApply(rec, src)[k] = src[LetterIndex(rec.name[k]) + 1]

C11_Witness ==
    /\ swC = 3 /\ swM = 3
    /\ \E n \in 1..Len(swOut) :
           /\ swOut[n].name = <<"z", "z", "x">>
           /\ AccessorApply(swOut[n], <<-7, 5, 11, 99>>) = <<11, 11, -7, 0>>

\* The smallest power of two that is at least m, for m in 1..4.
RefPow2(m) == CHOOSE p \in {1, 2, 4} : p >= m /\ p < 2 * m

\* C30: for every accessor write_field_list emits next_power_of_two(M) lane
\* indices: the M selected ones followed, for M = 3 only, by one placeholder
\* 0; every emitted index is below C; the body wraps the gather in
\* from_simd_truncate, so the 4th lane of a 3-wide result is zero.
C30_SwizzleLanePadding ==
    \A n \in 1..Len(swOut) :
        LET rec == swOut[n]
        IN  /\ Len(rec.lanes) = RefPow2(swM)
            /\ SubSeq(rec.lanes, 1, swM) = rec.sel
            /\ IF swM = 3 THEN Len(rec.lanes) = 4 /\ rec.lanes[4] = 0
                          ELSE Len(rec.lanes) = swM
            /\ \A k \in 1..Len(rec.lanes) : rec.lanes[k] >= 0 /\ rec.lanes[k] < swC
            /\ rec.trunc
            /\ swM = 3 => \A src \in SwizzleSources(swC) :
                              /\ Len(AccessorApply(rec, src)) = 4
                              /\ AccessorApply(rec, src)[4] = 0

\* The accessor yzy of a 4-component vector: the lanes 1, 2, 1 and the
\* placeholder 0, which gathers the source's x into the 4th lane before the
\* truncation zeroes it.
C30_Witness ==
    /\ swC = 4 /\ swM = 3
    /\ \E n \in 1..Len(swOut) :
           /\ swOut[n].name = <<"y", "z", "y">>
           /\ swOut[n].lanes = <<1, 2, 1, 0>>
           /\ simd_swizzle(<<10, 20, 30, 40>>, swOut[n].lanes) = <<20, 30, 20, 10>>
           /\ AccessorApply(swOut[n], <<10, 20, 30, 40>>) = <<20, 30, 20, 0>>

====
